---------------------------- MODULE Spec2Model ----------------------------
(***************************************************************************)
(* A model of the financial-statement analysis assistant (fsa-llm).        *)
(*                                                                         *)
(* Four specifications share this module:                                 *)
(*   SpecChunk  smart_chunk_document (document_processing.py) as a pure    *)
(*              function applied to bounded input texts;                   *)
(*   SpecPre    preprocess_document_text (document_processing.py): the     *)
(*              submitting thread and the pool of overview workers;        *)
(*   Spec       the session driven by the Streamlit script (app.py): the   *)
(*              test, start and reset buttons, planning at start, one      *)
(*              module of the 32-module catalog per script rerun           *)
(*              (core_analysis_engine.py), conclusion integration and      *)
(*              risk/opportunity consolidation (integration_services.py);  *)
(*   SpecCalls  single calls of the planners, the chunk selector and the   *)
(*              compressor (planning_services.py), of the document         *)
(*              pre-fetch and of a module execution up to its analysis     *)
(*              call (core_analysis_engine.py), of the integration         *)
(*              and the consolidation (integration_services.py), of the    *)
(*              overview generator and of the search tool, applied to      *)
(*              bounded arguments and LLM responses.                       *)
(*                                                                         *)
(* Texts are sequences of characters: a printable ASCII character is      *)
(* itself, any other character is written by its code point ("U+3001").    *)
(* The module names of config.py are written by their numeric prefix       *)
(* ("1.1" for "1.1 <name>"), the only ASCII part of the names.             *)
(***************************************************************************)
EXTENDS Naturals, Sequences, FiniteSets, TLC

VARIABLES
    \* ---- smart_chunk_document: arguments, result, position
    text, doc_type, period_label, max_chars, chunks, chunk_pc,
    \* ---- preprocess_document_text: locals, the executor's futures, position
    chunks_with_text,
    futures,            \* per chunk position: the state of its future and its result
    processed_chunks,
    overview_calls,     \* per chunk position: calls of the worker, calls of llm.invoke
    pre_pc,
    \* ---- one call of a planning or retrieval function: its name, arguments
    \* (with what each LLM call inside it does), result, position
    call_fn, call_args, call_result, call_pc,
    \* ---- the run: llm_setup.llm and st.session_state
    llm,                          \* whether the LLM client was constructed
    analysis_started,
    analysis_progress,
    current_module_processing,
    test_data_loaded_successfully,
    current_run_result_dir,       \* "none" for None, else the directory of the run
    ai_planner_enabled,           \* cwp.base_data.company_info
    industry_analysis_conclusion_text,
    ai_planned_modules,           \* cwp.metadata_version_control
    information_needs_by_module,
    financial_reports,            \* cwp.base_data
    analytical_module_outputs,    \* cwp.analytical_module_outputs
    current_overall_financial_conclusion,   \* cwp.integrated_insights
    contradiction_logbook,
    key_risks,
    key_opportunities,
    \* ---- what has happened in the run (observations, not program state)
    trace,              \* module begins, output writes, integration and consolidation calls
    revisions,          \* assignments to the overall conclusion
    sum_calls,          \* summarization LLM calls issued, per summarized module
    last_integration,   \* the latest integration call: conclusion before and after
    last_exec,          \* the latest module execution: where something raised
    needs_planning_calls,   \* calls of plan_all_module_information_needs since the
                            \* working paper was initialized
    varied              \* places where the run left the plain course

chunk_vars == <<text, doc_type, period_label, max_chars, chunks, chunk_pc>>

pre_vars == <<chunks_with_text, futures, processed_chunks, overview_calls, pre_pc>>

call_vars == <<call_fn, call_args, call_result, call_pc>>

cwp_vars == <<ai_planner_enabled, industry_analysis_conclusion_text, ai_planned_modules,
              information_needs_by_module, financial_reports, analytical_module_outputs,
              current_overall_financial_conclusion, contradiction_logbook,
              key_risks, key_opportunities>>

session_vars == <<analysis_started, analysis_progress, current_module_processing,
                  test_data_loaded_successfully, current_run_result_dir>>

observed_vars == <<trace, revisions, sum_calls, last_integration, last_exec,
                   needs_planning_calls, varied>>

vars == <<chunk_vars, pre_vars, call_vars, llm, session_vars, cwp_vars, observed_vars>>



----------------------------------------------------------------------------
(* Bounds of the chunking inputs *)

MaxTextLen == 5
MaxCharsBound == 4

\* The characters input texts are drawn from: a letter, a digit, a dot, the
\* ideographic comma that ends a numbered heading, and three whitespace
\* characters: the space, the newline the section patterns start with, and
\* the carriage return.
Alphabet == {"a", "1", ".", "U+3001", " ", "\n", "\r"}

----------------------------------------------------------------------------
(* Python string helpers, on sequences of characters; offsets are 0-based  *)
(* as in the source: offset k is the place before character k+1.  A        *)
(* printable ASCII character is written as itself, tab, newline, form feed *)
(* and carriage return as "\t", "\n", "\f", "\r" (or by their code point), *)
(* and every other character by its code point, "U+" and at least four     *)
(* hexadecimal digits: "U+3001" is the ideographic comma.                  *)

Min(S) == CHOOSE x \in S : \A y \in S : x <= y

\* s[a:b]
Slice(s, a, b) == IF b > a THEN SubSeq(s, a + 1, b) ELSE <<>>

\* \s of re on str, and the characters str.split() and str.strip() treat as
\* blank: the characters for which str.isspace() holds
IsSpace(c) ==
    c \in {
     "\t", "U+0009", "\n", "U+000A", "U+000B", "\f", "U+000C", "\r",
     "U+000D", "U+001C", "U+001D", "U+001E", "U+001F", " ", "U+0085",
     "U+00A0", "U+1680", "U+2000", "U+2001", "U+2002", "U+2003", "U+2004",
     "U+2005", "U+2006", "U+2007", "U+2008", "U+2009", "U+200A", "U+2028",
     "U+2029", "U+202F", "U+205F", "U+3000" }
NotSpace(c) == ~IsSpace(c)

\* \d of re on str: the decimal digits of every script
IsDigit(c) ==
    c \in {
     "0", "1", "2", "3", "4", "5", "6", "7", "8", "9", "U+0660", "U+0661",
     "U+0662", "U+0663", "U+0664", "U+0665", "U+0666", "U+0667", "U+0668",
     "U+0669", "U+06F0", "U+06F1", "U+06F2", "U+06F3", "U+06F4", "U+06F5",
     "U+06F6", "U+06F7", "U+06F8", "U+06F9", "U+07C0", "U+07C1", "U+07C2",
     "U+07C3", "U+07C4", "U+07C5", "U+07C6", "U+07C7", "U+07C8", "U+07C9",
     "U+0966", "U+0967", "U+0968", "U+0969", "U+096A", "U+096B", "U+096C",
     "U+096D", "U+096E", "U+096F", "U+09E6", "U+09E7", "U+09E8", "U+09E9",
     "U+09EA", "U+09EB", "U+09EC", "U+09ED", "U+09EE", "U+09EF", "U+0A66",
     "U+0A67", "U+0A68", "U+0A69", "U+0A6A", "U+0A6B", "U+0A6C", "U+0A6D",
     "U+0A6E", "U+0A6F", "U+0AE6", "U+0AE7", "U+0AE8", "U+0AE9", "U+0AEA",
     "U+0AEB", "U+0AEC", "U+0AED", "U+0AEE", "U+0AEF", "U+0B66", "U+0B67",
     "U+0B68", "U+0B69", "U+0B6A", "U+0B6B", "U+0B6C", "U+0B6D", "U+0B6E",
     "U+0B6F", "U+0BE6", "U+0BE7", "U+0BE8", "U+0BE9", "U+0BEA", "U+0BEB",
     "U+0BEC", "U+0BED", "U+0BEE", "U+0BEF", "U+0C66", "U+0C67", "U+0C68",
     "U+0C69", "U+0C6A", "U+0C6B", "U+0C6C", "U+0C6D", "U+0C6E", "U+0C6F",
     "U+0CE6", "U+0CE7", "U+0CE8", "U+0CE9", "U+0CEA", "U+0CEB", "U+0CEC",
     "U+0CED", "U+0CEE", "U+0CEF", "U+0D66", "U+0D67", "U+0D68", "U+0D69",
     "U+0D6A", "U+0D6B", "U+0D6C", "U+0D6D", "U+0D6E", "U+0D6F", "U+0DE6",
     "U+0DE7", "U+0DE8", "U+0DE9", "U+0DEA", "U+0DEB", "U+0DEC", "U+0DED",
     "U+0DEE", "U+0DEF", "U+0E50", "U+0E51", "U+0E52", "U+0E53", "U+0E54",
     "U+0E55", "U+0E56", "U+0E57", "U+0E58", "U+0E59", "U+0ED0", "U+0ED1",
     "U+0ED2", "U+0ED3", "U+0ED4", "U+0ED5", "U+0ED6", "U+0ED7", "U+0ED8",
     "U+0ED9", "U+0F20", "U+0F21", "U+0F22", "U+0F23", "U+0F24", "U+0F25",
     "U+0F26", "U+0F27", "U+0F28", "U+0F29", "U+1040", "U+1041", "U+1042",
     "U+1043", "U+1044", "U+1045", "U+1046", "U+1047", "U+1048", "U+1049",
     "U+1090", "U+1091", "U+1092", "U+1093", "U+1094", "U+1095", "U+1096",
     "U+1097", "U+1098", "U+1099", "U+17E0", "U+17E1", "U+17E2", "U+17E3",
     "U+17E4", "U+17E5", "U+17E6", "U+17E7", "U+17E8", "U+17E9", "U+1810",
     "U+1811", "U+1812", "U+1813", "U+1814", "U+1815", "U+1816", "U+1817",
     "U+1818", "U+1819", "U+1946", "U+1947", "U+1948", "U+1949", "U+194A",
     "U+194B", "U+194C", "U+194D", "U+194E", "U+194F", "U+19D0", "U+19D1",
     "U+19D2", "U+19D3", "U+19D4", "U+19D5", "U+19D6", "U+19D7", "U+19D8",
     "U+19D9", "U+1A80", "U+1A81", "U+1A82", "U+1A83", "U+1A84", "U+1A85",
     "U+1A86", "U+1A87", "U+1A88", "U+1A89", "U+1A90", "U+1A91", "U+1A92",
     "U+1A93", "U+1A94", "U+1A95", "U+1A96", "U+1A97", "U+1A98", "U+1A99",
     "U+1B50", "U+1B51", "U+1B52", "U+1B53", "U+1B54", "U+1B55", "U+1B56",
     "U+1B57", "U+1B58", "U+1B59", "U+1BB0", "U+1BB1", "U+1BB2", "U+1BB3",
     "U+1BB4", "U+1BB5", "U+1BB6", "U+1BB7", "U+1BB8", "U+1BB9", "U+1C40",
     "U+1C41", "U+1C42", "U+1C43", "U+1C44", "U+1C45", "U+1C46", "U+1C47",
     "U+1C48", "U+1C49", "U+1C50", "U+1C51", "U+1C52", "U+1C53", "U+1C54",
     "U+1C55", "U+1C56", "U+1C57", "U+1C58", "U+1C59", "U+A620", "U+A621",
     "U+A622", "U+A623", "U+A624", "U+A625", "U+A626", "U+A627", "U+A628",
     "U+A629", "U+A8D0", "U+A8D1", "U+A8D2", "U+A8D3", "U+A8D4", "U+A8D5",
     "U+A8D6", "U+A8D7", "U+A8D8", "U+A8D9", "U+A900", "U+A901", "U+A902",
     "U+A903", "U+A904", "U+A905", "U+A906", "U+A907", "U+A908", "U+A909",
     "U+A9D0", "U+A9D1", "U+A9D2", "U+A9D3", "U+A9D4", "U+A9D5", "U+A9D6",
     "U+A9D7", "U+A9D8", "U+A9D9", "U+A9F0", "U+A9F1", "U+A9F2", "U+A9F3",
     "U+A9F4", "U+A9F5", "U+A9F6", "U+A9F7", "U+A9F8", "U+A9F9", "U+AA50",
     "U+AA51", "U+AA52", "U+AA53", "U+AA54", "U+AA55", "U+AA56", "U+AA57",
     "U+AA58", "U+AA59", "U+ABF0", "U+ABF1", "U+ABF2", "U+ABF3", "U+ABF4",
     "U+ABF5", "U+ABF6", "U+ABF7", "U+ABF8", "U+ABF9", "U+FF10", "U+FF11",
     "U+FF12", "U+FF13", "U+FF14", "U+FF15", "U+FF16", "U+FF17", "U+FF18",
     "U+FF19", "U+104A0", "U+104A1", "U+104A2", "U+104A3", "U+104A4",
     "U+104A5", "U+104A6", "U+104A7", "U+104A8", "U+104A9", "U+10D30",
     "U+10D31", "U+10D32", "U+10D33", "U+10D34", "U+10D35", "U+10D36",
     "U+10D37", "U+10D38", "U+10D39", "U+11066", "U+11067", "U+11068",
     "U+11069", "U+1106A", "U+1106B", "U+1106C", "U+1106D", "U+1106E",
     "U+1106F", "U+110F0", "U+110F1", "U+110F2", "U+110F3", "U+110F4",
     "U+110F5", "U+110F6", "U+110F7", "U+110F8", "U+110F9", "U+11136",
     "U+11137", "U+11138", "U+11139", "U+1113A", "U+1113B", "U+1113C",
     "U+1113D", "U+1113E", "U+1113F", "U+111D0", "U+111D1", "U+111D2",
     "U+111D3", "U+111D4", "U+111D5", "U+111D6", "U+111D7", "U+111D8",
     "U+111D9", "U+112F0", "U+112F1", "U+112F2", "U+112F3", "U+112F4",
     "U+112F5", "U+112F6", "U+112F7", "U+112F8", "U+112F9", "U+11450",
     "U+11451", "U+11452", "U+11453", "U+11454", "U+11455", "U+11456",
     "U+11457", "U+11458", "U+11459", "U+114D0", "U+114D1", "U+114D2",
     "U+114D3", "U+114D4", "U+114D5", "U+114D6", "U+114D7", "U+114D8",
     "U+114D9", "U+11650", "U+11651", "U+11652", "U+11653", "U+11654",
     "U+11655", "U+11656", "U+11657", "U+11658", "U+11659", "U+116C0",
     "U+116C1", "U+116C2", "U+116C3", "U+116C4", "U+116C5", "U+116C6",
     "U+116C7", "U+116C8", "U+116C9", "U+11730", "U+11731", "U+11732",
     "U+11733", "U+11734", "U+11735", "U+11736", "U+11737", "U+11738",
     "U+11739", "U+118E0", "U+118E1", "U+118E2", "U+118E3", "U+118E4",
     "U+118E5", "U+118E6", "U+118E7", "U+118E8", "U+118E9", "U+11950",
     "U+11951", "U+11952", "U+11953", "U+11954", "U+11955", "U+11956",
     "U+11957", "U+11958", "U+11959", "U+11C50", "U+11C51", "U+11C52",
     "U+11C53", "U+11C54", "U+11C55", "U+11C56", "U+11C57", "U+11C58",
     "U+11C59", "U+11D50", "U+11D51", "U+11D52", "U+11D53", "U+11D54",
     "U+11D55", "U+11D56", "U+11D57", "U+11D58", "U+11D59", "U+11DA0",
     "U+11DA1", "U+11DA2", "U+11DA3", "U+11DA4", "U+11DA5", "U+11DA6",
     "U+11DA7", "U+11DA8", "U+11DA9", "U+16A60", "U+16A61", "U+16A62",
     "U+16A63", "U+16A64", "U+16A65", "U+16A66", "U+16A67", "U+16A68",
     "U+16A69", "U+16AC0", "U+16AC1", "U+16AC2", "U+16AC3", "U+16AC4",
     "U+16AC5", "U+16AC6", "U+16AC7", "U+16AC8", "U+16AC9", "U+16B50",
     "U+16B51", "U+16B52", "U+16B53", "U+16B54", "U+16B55", "U+16B56",
     "U+16B57", "U+16B58", "U+16B59", "U+1D7CE", "U+1D7CF", "U+1D7D0",
     "U+1D7D1", "U+1D7D2", "U+1D7D3", "U+1D7D4", "U+1D7D5", "U+1D7D6",
     "U+1D7D7", "U+1D7D8", "U+1D7D9", "U+1D7DA", "U+1D7DB", "U+1D7DC",
     "U+1D7DD", "U+1D7DE", "U+1D7DF", "U+1D7E0", "U+1D7E1", "U+1D7E2",
     "U+1D7E3", "U+1D7E4", "U+1D7E5", "U+1D7E6", "U+1D7E7", "U+1D7E8",
     "U+1D7E9", "U+1D7EA", "U+1D7EB", "U+1D7EC", "U+1D7ED", "U+1D7EE",
     "U+1D7EF", "U+1D7F0", "U+1D7F1", "U+1D7F2", "U+1D7F3", "U+1D7F4",
     "U+1D7F5", "U+1D7F6", "U+1D7F7", "U+1D7F8", "U+1D7F9", "U+1D7FA",
     "U+1D7FB", "U+1D7FC", "U+1D7FD", "U+1D7FE", "U+1D7FF", "U+1E140",
     "U+1E141", "U+1E142", "U+1E143", "U+1E144", "U+1E145", "U+1E146",
     "U+1E147", "U+1E148", "U+1E149", "U+1E2F0", "U+1E2F1", "U+1E2F2",
     "U+1E2F3", "U+1E2F4", "U+1E2F5", "U+1E2F6", "U+1E2F7", "U+1E2F8",
     "U+1E2F9", "U+1E950", "U+1E951", "U+1E952", "U+1E953", "U+1E954",
     "U+1E955", "U+1E956", "U+1E957", "U+1E958", "U+1E959", "U+1FBF0",
     "U+1FBF1", "U+1FBF2", "U+1FBF3", "U+1FBF4", "U+1FBF5", "U+1FBF6",
     "U+1FBF7", "U+1FBF8", "U+1FBF9" }

\* the numeral class of the first three section patterns: the fifteen CJK
\* numerals (one to ten, zero, hundred, thousand, ten thousand, hundred
\* million) and \d
IsNumeral(c) ==
    \/ c \in {
     "U+4E00", "U+4E8C", "U+4E09", "U+56DB", "U+4E94", "U+516D", "U+4E03",
     "U+516B", "U+4E5D", "U+5341", "U+96F6", "U+767E", "U+5343", "U+4E07",
     "U+4EBF" }
    \/ IsDigit(c)

\* the class that ends a numbered heading: the ideographic comma, the
\* fullwidth full stop and the dot
IsHeadingEnd(c) == c \in {"U+3001", "U+FF0E", "."}

\* whether character c is in the class: \s, \S, \d, the numerals, \n
InClass(class, c) ==
    CASE class = "space" -> IsSpace(c)
      [] class = "nonspace" -> NotSpace(c)
      [] class = "digit" -> IsDigit(c)
      [] class = "numeral" -> IsNumeral(c)
      [] class = "newline" -> c = "\n"

\* the largest offset j >= k with every character between k and j in the class
SkipRun(class, s, k) ==
    CHOOSE j \in k..Len(s) :
        /\ \A t \in (k + 1)..j : InClass(class, s[t])
        /\ (j = Len(s) \/ ~InClass(class, s[j + 1]))

\* not s.strip()
IsBlank(s) == \A i \in 1..Len(s) : IsSpace(s[i])

\* s.strip()
Strip(s) ==
    IF IsBlank(s) THEN <<>>
    ELSE LET a == Min({i \in 1..Len(s) : NotSpace(s[i])})
             b == CHOOSE i \in 1..Len(s) :
                      NotSpace(s[i]) /\ \A j \in (i + 1)..Len(s) : IsSpace(s[j])
         IN SubSeq(s, a, b)

\* s.split(): the maximal runs of non-blank characters
RECURSIVE SplitWords(_)
SplitWords(s) ==
    LET j == SkipRun("space", s, 0) IN
    IF j = Len(s) THEN <<>>
    ELSE LET k == SkipRun("nonspace", s, j)
         IN <<Slice(s, j, k)>> \o SplitWords(Slice(s, k, Len(s)))

\* " ".join(words)
RECURSIVE JoinSpace(_)
JoinSpace(words) ==
    IF words = <<>> THEN <<>>
    ELSE IF Len(words) = 1 THEN words[1]
    ELSE words[1] \o <<" ">> \o JoinSpace(Tail(words))

\* s.split(sep) for a non-empty separator
RECURSIVE SplitOn(_, _)
SplitOn(s, sep) ==
    LET hits == {i \in 0..(Len(s) - Len(sep)) : Slice(s, i, i + Len(sep)) = sep} IN
    IF Len(s) < Len(sep) \/ hits = {} THEN <<s>>
    ELSE LET i == Min(hits)
         IN <<Slice(s, 0, i)>> \o SplitOn(Slice(s, i + Len(sep), Len(s)), sep)

\* s.replace(' ', '_')
ReplaceSpaces(s) == [i \in 1..Len(s) |-> IF s[i] = " " THEN "_" ELSE s[i]]

\* str(n) for n >= 0
RECURSIVE Decimal(_)
Decimal(n) ==
    LET digit == <<"0", "1", "2", "3", "4", "5", "6", "7", "8", "9">>[(n % 10) + 1] IN
    IF n < 10 THEN <<digit>> ELSE Decimal(n \div 10) \o <<digit>>

\* sorted(list(set(S)))
RECURSIVE Sorted(_)
Sorted(S) == IF S = {} THEN <<>> ELSE <<Min(S)>> \o Sorted(S \ {Min(S)})

----------------------------------------------------------------------------
(* section_patterns: for pattern p and offset i, the offset just after the *)
(* match of p that starts at i, or 0 when p does not match at i.  Every    *)
(* pattern starts with \n followed by \s*.  "U+9644" "U+6CE8" are the two   *)
(* characters of the word that opens a footnote heading, "U+00A7" is the   *)
(* section sign, "U+FF08" and "U+FF09" are the fullwidth parentheses.      *)

\* (\.\d+)* of the fourth pattern, greedy
RECURSIVE DottedNumbersEnd(_, _)
DottedNumbersEnd(s, k) ==
    IF k + 2 <= Len(s) /\ s[k + 1] = "." /\ IsDigit(s[k + 2])
    THEN DottedNumbersEnd(s, SkipRun("digit", s, k + 1))
    ELSE k

\* [numerals]+[heading end] at offset j
NumberedEnd(s, j) ==
    LET k == SkipRun("numeral", s, j) IN
    IF k > j /\ k < Len(s) /\ IsHeadingEnd(s[k + 1]) THEN k + 1 ELSE 0

MatchEnd(p, s, i) ==
    IF i >= Len(s) \/ s[i + 1] # "\n" THEN 0
    ELSE LET j == SkipRun("space", s, i + 1) IN
         CASE p = 1 ->
                IF j + 2 <= Len(s) /\ s[j + 1] = "U+9644" /\ s[j + 2] = "U+6CE8"
                THEN NumberedEnd(s, SkipRun("space", s, j + 2)) ELSE 0
           [] p = 2 ->
                LET k == SkipRun("numeral", s, j + 1) IN
                IF /\ j < Len(s) /\ s[j + 1] \in {"U+FF08", "("}
                   /\ k > j + 1 /\ k < Len(s) /\ s[k + 1] \in {"U+FF09", ")", "."}
                THEN k + 1 ELSE 0
           [] p = 3 -> NumberedEnd(s, j)
           [] p = 4 ->
                LET d == SkipRun("space", s, j + 1)
                    k == SkipRun("digit", s, d) IN
                IF j < Len(s) /\ s[j + 1] = "U+00A7" /\ k > d
                THEN DottedNumbersEnd(s, k) ELSE 0
           [] OTHER ->
                \* \n\n+ : the whole run of newlines, at least two
                LET k == SkipRun("newline", s, i) IN
                IF k >= i + 2 THEN k ELSE 0

NumPatterns == 5

\* [m.start() for m in re.finditer(pattern, text)]: non-overlapping matches,
\* leftmost first, searched on from the end of the previous match
RECURSIVE FindIterFrom(_, _, _)
FindIterFrom(p, s, pos) ==
    LET starts == {i \in pos..(Len(s) - 1) : MatchEnd(p, s, i) > 0} IN
    IF pos >= Len(s) \/ starts = {} THEN {}
    ELSE LET i == Min(starts) IN {i} \cup FindIterFrom(p, s, MatchEnd(p, s, i))

\* split_points after the sort
SplitPoints(s) ==
    Sorted({0, Len(s)} \cup UNION {FindIterFrom(p, s, 0) : p \in 1..NumPatterns})

\* the non-empty stripped pieces of a list of strings, in order
RECURSIVE StrippedNonEmpty(_)
StrippedNonEmpty(parts) ==
    IF parts = <<>> THEN <<>>
    ELSE (IF IsBlank(parts[1]) THEN <<>> ELSE <<Strip(parts[1])>>)
         \o StrippedNonEmpty(Tail(parts))

\* raw_sections, with the paragraph and line fallback
RawSections(s, maxc) ==
    LET sp == SplitPoints(s)
        cut == [i \in 1..(Len(sp) - 1) |-> Slice(s, sp[i], sp[i + 1])]
        structural == StrippedNonEmpty(cut)
        paragraphs == StrippedNonEmpty(SplitOn(s, <<"\n", "\n">>))
    IN IF structural # <<>> THEN structural
       ELSE IF paragraphs = <<>>
               \/ (Len(paragraphs) = 1 /\ Len(paragraphs[1]) > maxc * 2)
            THEN StrippedNonEmpty(SplitOn(s, <<"\n">>))
            ELSE paragraphs

----------------------------------------------------------------------------
(* The packing loop.  A packing state is the loop's local variables:       *)
(* [chunks, temp_chunk, current_len, chunk_idx].                           *)

ChunkId(dt, pl, idx) == dt \o <<"_">> \o ReplaceSpaces(pl) \o <<"_">> \o Decimal(idx)

\* chunks.append({...temp_chunk...}); chunk_idx += 1; temp_chunk = []; current_len = 0
EmitTemp(st, dt, pl) ==
    [chunks |-> Append(st.chunks,
                       [chunk_id |-> ChunkId(dt, pl, st.chunk_idx),
                        text |-> JoinSpace(st.temp_chunk)]),
     temp_chunk |-> <<>>, current_len |-> 0, chunk_idx |-> st.chunk_idx + 1]

\* while len(word) > max_chars: a chunk of the first max_chars characters.
\* The result is the packing state and what is left of the word.
HardSplitKeepWhole(st, word, dt, pl, maxc) == [st |-> st, word |-> word]

RECURSIVE HardSplit(_, _, _, _, _)
HardSplit(st, word, dt, pl, maxc) ==
    IF Len(word) > maxc
    THEN HardSplit([st EXCEPT
                       !.chunks = Append(@, [chunk_id |-> ChunkId(dt, pl, st.chunk_idx),
                                             text |-> Slice(word, 0, maxc)]),
                       !.chunk_idx = @ + 1],
                   Slice(word, maxc, Len(word)), dt, pl, maxc)
    ELSE [st |-> st, word |-> word]

\* one iteration of "for word in words"
AddWord(st, word, dt, pl, maxc) ==
    IF st.current_len + Len(word) + 1 > maxc
    THEN LET flushed == IF st.temp_chunk # <<>> THEN EmitTemp(st, dt, pl) ELSE st
             hs == HardSplit(flushed, word, dt, pl, maxc)
         IN [hs.st EXCEPT !.temp_chunk = Append(@, hs.word),
                          !.current_len = @ + Len(hs.word) + 1]
    ELSE [st EXCEPT !.temp_chunk = Append(@, word),
                    !.current_len = @ + Len(word) + 1]

RECURSIVE AddWords(_, _, _, _, _)
AddWords(st, words, dt, pl, maxc) ==
    IF words = <<>> THEN st
    ELSE AddWords(AddWord(st, words[1], dt, pl, maxc), Tail(words), dt, pl, maxc)

\* the locals a section starts with; chunk_idx is set once, before the loop
SectionStartResetsIdx(st) ==
    [st EXCEPT !.temp_chunk = <<>>, !.current_len = 0, !.chunk_idx = 0]

SectionStart(st) == [st EXCEPT !.temp_chunk = <<>>, !.current_len = 0]

\* if temp_chunk: the last chunk of the section
FlushTailNever(st, dt, pl) == st

FlushTail(st, dt, pl) == IF st.temp_chunk # <<>> THEN EmitTemp(st, dt, pl) ELSE st

RECURSIVE ChunkSections(_, _, _, _, _)
ChunkSections(st, sections, dt, pl, maxc) ==
    IF sections = <<>> THEN st
    ELSE ChunkSections(
             FlushTail(AddWords(SectionStart(st), SplitWords(sections[1]), dt, pl, maxc),
                       dt, pl),
             Tail(sections), dt, pl, maxc)

smart_chunk_document(s, dt, pl, maxc) ==
    IF s = <<>> \/ IsBlank(s) THEN <<>>
    ELSE ChunkSections([chunks |-> <<>>, temp_chunk |-> <<>>,
                        current_len |-> 0, chunk_idx |-> 0],
                       RawSections(s, maxc), dt, pl, maxc).chunks

----------------------------------------------------------------------------
(* config.py: the analysis framework *)

\* ANALYSIS_FRAMEWORK_SECTIONS: the module lists of the sections, in
\* declaration order
ANALYSIS_FRAMEWORK_SECTIONS ==
    << <<"1.1", "1.2", "1.4", "1.5">>,
       <<"2.1", "2.2", "2.3", "2.4">>,
       <<"3.1", "3.2", "3.3", "3.4", "3.5">>,
       <<"4.1", "4.2", "4.3", "4.4">>,
       <<"5.1", "5.2", "5.3", "5.4">>,
       <<"6.1", "6.2", "6.3", "6.4", "6.5">>,
       <<"7.1", "7.2", "7.3", "7.4", "7.5", "7.6">> >>

\* MODULE_DEPENDENCIES.get(m, [])
MODULE_DEPENDENCIES(m) ==
    CASE m = "1.2" -> <<"1.1">>
      [] m = "1.5" -> <<"1.1", "1.2", "1.4">>
      [] m = "2.2" -> <<"2.1">>
      [] m = "3.1" -> <<"1.4">>
      [] m = "3.3" -> <<"3.1", "3.2", "3.4">>
      [] m = "3.5" -> <<"3.4">>
      [] m = "4.1" -> <<"2.1">>
      [] m = "4.2" -> <<"2.1">>
      [] m = "4.3" -> <<"2.1", "3.5">>
      [] m = "4.4" -> <<"2.1">>
      [] m = "5.1" -> <<"2.1", "2.2">>
      [] m = "5.2" -> <<"2.1">>
      [] m = "5.3" -> <<"2.1", "6.2">>
      [] m = "5.4" -> <<"2.1", "3.5">>
      [] m = "6.1" -> <<"1.2", "2.1">>
      [] m = "6.2" -> <<"6.1", "2.1">>
      [] m = "6.3" -> <<"6.1", "6.2", "2.1", "4.4">>
      [] m = "6.4" -> <<"6.1", "6.2", "6.3">>
      [] m = "6.5" -> <<"6.4">>
      [] m = "7.1" -> <<"6.4", "5.3">>
      [] m = "7.2" -> <<"6.4">>
      [] m = "7.3" -> <<"6.4">>
      [] m = "7.4" -> <<"6.4">>
      [] m = "7.5" -> <<"1.1", "1.2", "2.1">>
      [] m = "7.6" -> <<"1.5", "3.1">>
      [] OTHER -> <<>>

RECURSIVE ConcatAll(_)
ConcatAll(lists) == IF lists = <<>> THEN <<>> ELSE lists[1] \o ConcatAll(Tail(lists))

\* the modules of all the sections, in declaration order
ALL_DEFINED_MODULES_LIST == ConcatAll(ANALYSIS_FRAMEWORK_SECTIONS)

\* The LLM answers and the call arguments that name modules name the first
\* NumModules modules of the catalog.
NumModules == 3

AnsweredModules == SubSeq(ALL_DEFINED_MODULES_LIST, 1, NumModules)

TOTAL_MODULES_COUNT == Len(ALL_DEFINED_MODULES_LIST)

Range(f) == {f[i] : i \in DOMAIN f}

\* next_section_key_for_module: the number of the section that lists the
\* module, 0 for None
SectionKeyFor(m) ==
    LET hits == {i \in DOMAIN ANALYSIS_FRAMEWORK_SECTIONS :
                    m \in Range(ANALYSIS_FRAMEWORK_SECTIONS[i])}
    IN IF hits = {} THEN 0 ELSE Min(hits)

----------------------------------------------------------------------------
(* Python values.  A value is a record whose field py names its type.  A   *)
(* string carries a token s that stands for its content, and where the     *)
(* content depends on a module or on another value, that too.              *)

PyNone == [py |-> "None"]
PyInt == [py |-> "int"]           \* a non-zero number: truthy, not a string
Str(t) == [py |-> "str", s |-> t]
StrOf(t, m) == [py |-> "str", s |-> t, module |-> m]
PyList(items) == [py |-> "list", items |-> items]

\* v[:n] + "..." of a string
Snippet(v) == [py |-> "str", s |-> "snippet", of |-> v]

IsStr(v) == v.py = "str"

\* bool(v)
Truthy(v) ==
    CASE v.py = "None" -> FALSE
      [] v.py = "str" -> v.s # ""
      [] v.py = "list" -> v.items # <<>>
      [] OTHER -> TRUE

\* list(v): iterating a dict yields its keys, in insertion order
PyIter(v) == IF v.py = "dict" THEN v.keys ELSE v.items

\* len(v)
PyLen(v) == Len(PyIter(v))

\* a list element that is not a string
NonStrItem == "<int>"
IsStrItem(x) == x # NonStrItem

\* dict with no key
EmptyDict == [k \in {} |-> PyNone]

\* d[k] = v
PutKey(d, k, v) == [x \in DOMAIN d \cup {k} |-> IF x = k THEN v ELSE d[x]]

----------------------------------------------------------------------------
(* LLM responses.  A response is what llm.invoke does for one call: it     *)
(* raises, or returns content that is not JSON, or JSON that is not an     *)
(* object, or a JSON object, whose fields are Python values (PyNone for a  *)
(* key that is missing or null where the code treats both alike).          *)

Raises == [kind |-> "raise"]
NonJson == [kind |-> "nonjson"]
JsonNonDict == [kind |-> "json_nondict"]

\* sequences over S of length at most n
RECURSIVE SeqsUpTo(_, _)
SeqsUpTo(S, n) ==
    IF n = 0 THEN {<<>>}
    ELSE LET shorter == SeqsUpTo(S, n - 1)
         IN shorter \cup {Append(t, x) : t \in {u \in shorter : Len(u) = n - 1}, x \in S}

----------------------------------------------------------------------------
(* planning_services.py: get_ai_planned_analysis_route *)

\* the dict every return statement of the planner builds
RoutePlan(mods, reasoning) ==
    [py |-> "dict", keys |-> <<"planned_modules", "planning_reasoning">>,
     planned_modules |-> mods, planning_reasoning |-> reasoning]

get_ai_planned_analysis_route(llm_ok, resp, all_available_modules_list) ==
    IF ~llm_ok
    THEN RoutePlan(all_available_modules_list, "fallback: LLM unavailable")
    ELSE CASE resp.kind = "raise" ->
                RoutePlan(all_available_modules_list, "fallback: planner error")
           [] resp.kind = "nonjson" ->
                RoutePlan(all_available_modules_list, "fallback: not JSON")
           [] resp.kind = "json_nondict" ->
                \* parsed_plan.get on a value that is not a dict
                RoutePlan(all_available_modules_list, "fallback: planner error")
           [] OTHER ->
                LET planned_modules == resp.planned_modules
                    planning_reasoning ==
                        IF resp.planning_reasoning = "missing"
                        THEN "no reasoning given" ELSE "LLM reasoning"
                IN IF /\ Truthy(planned_modules)
                      /\ planned_modules.py = "list"
                      /\ \A i \in DOMAIN planned_modules.items :
                            IsStrItem(planned_modules.items[i])
                   THEN LET valid_planned_modules ==
                                SelectSeq(planned_modules.items,
                                          LAMBDA m : m \in Range(all_available_modules_list))
                        IN IF valid_planned_modules = <<>>
                           THEN RoutePlan(all_available_modules_list,
                                          "fallback: no valid module")
                           ELSE IF resp.planning_reasoning = "nonstr"
                           \* planning_reasoning[:100] + "..." in the log call
                           \* of line 86 raises; handled at line 94
                           THEN RoutePlan(all_available_modules_list,
                                          "fallback: planner error")
                           ELSE RoutePlan(valid_planned_modules, planning_reasoning)
                   ELSE RoutePlan(all_available_modules_list, "fallback: bad format")

\* The longest module list a planner response carries
MaxRouteLen == 2

\* what the planner LLM may answer: names of the catalog, a name outside it;
\* planning_reasoning is "given" (a string), "missing" (no such key) or
\* "nonstr" (null or another JSON value that is not a string)
RouteResponses ==
    {Raises, NonJson, JsonNonDict}
    \cup {[kind |-> "json", planned_modules |-> pm, planning_reasoning |-> "given"] :
             pm \in {PyNone, Str("not a list"), PyList(<<NonStrItem>>)}
                    \cup {PyList(l) : l \in SeqsUpTo(Range(AnsweredModules)
                                                     \cup {"9.9"}, MaxRouteLen)}}
    \cup {[kind |-> "json", planned_modules |-> PyList(<<ALL_DEFINED_MODULES_LIST[1]>>),
           planning_reasoning |-> r] : r \in {"missing", "nonstr"}}

----------------------------------------------------------------------------
(* planning_services.py: plan_all_module_information_needs *)

EmptyNeeds == [search_queries |-> <<>>, document_extractions |-> <<>>]

\* {module_name: {"search_queries": [], "document_extractions": []} for ...}
DefaultNeeds(modules_to_plan_for) == [m \in Range(modules_to_plan_for) |-> EmptyNeeds]

\* an item of document_extractions: a dict whose three fields are strings;
\* "<missing>" is an absent key and "<int>" a value that is not a string
ExtractionItem(dt, pl, ctx) ==
    [py |-> "dict", document_type |-> dt, period_label |-> pl, analysis_context |-> ctx]

ValidExtractionDictOnly(item) == item.py = "dict"

ValidExtraction(item) ==
    /\ item.py = "dict"
    /\ \A v \in {item.document_type, item.period_label, item.analysis_context} :
          v \notin {"<missing>", NonStrItem}

\* the validation of one module's plan
ValidatedNeeds(module_plan) ==
    LET sq == module_plan.search_queries
        de == module_plan.document_extractions
    IN [search_queries |->
            IF sq.py = "list" THEN SelectSeq(sq.items, IsStrItem) ELSE <<>>,
        document_extractions |->
            IF de.py = "list" THEN SelectSeq(de.items, ValidExtraction) ELSE <<>>]

\* a mapping with a key for each module the response answers with an object
PlanOnlyAnswered(llm_ok, resp, modules_to_plan_for) ==
    IF ~llm_ok \/ resp.kind # "json" THEN DefaultNeeds(modules_to_plan_for)
    ELSE [m \in {x \in Range(modules_to_plan_for) :
                    x \in DOMAIN resp.plans /\ resp.plans[x].py = "dict"} |->
             ValidatedNeeds(resp.plans[m])]

\* resp.plans maps the module names the LLM answered for to what it answered
plan_all_module_information_needs(llm_ok, resp, modules_to_plan_for) ==
    IF ~llm_ok THEN DefaultNeeds(modules_to_plan_for)
    ELSE IF modules_to_plan_for = <<>> THEN EmptyDict
    ELSE IF resp.kind # "json" THEN DefaultNeeds(modules_to_plan_for)
    ELSE [m \in Range(modules_to_plan_for) |->
             IF m \in DOMAIN resp.plans /\ resp.plans[m].py = "dict"
             THEN ValidatedNeeds(resp.plans[m])
             ELSE EmptyNeeds]

\* a module plan as the LLM writes it
RawNeeds(sq, de) == [py |-> "dict", search_queries |-> sq, document_extractions |-> de]

\* what the needs planner LLM may answer: a plan for the first module, with
\* an entry of each kind the validation drops, an entry that is not a dict
\* for the second, and nothing for the others
NeedsResponses ==
    {Raises, NonJson, JsonNonDict,
     [kind |-> "json",
      plans |-> [m \in {ALL_DEFINED_MODULES_LIST[1], ALL_DEFINED_MODULES_LIST[2]} |->
                    IF m = ALL_DEFINED_MODULES_LIST[1]
                    THEN RawNeeds(PyList(<<"query", NonStrItem>>),
                                  PyList(<<ExtractionItem("footnotes", "2023 Annual", "policy"),
                                           ExtractionItem("mda", "<missing>", "outlook"),
                                           PyInt,
                                           ExtractionItem("mda", "2023 Annual", "outlook"),
                                           ExtractionItem("footnotes", "2023 Annual", "customers")>>))
                    ELSE PyInt]]}

----------------------------------------------------------------------------
(* integration_services.py: update_overall_conclusion_and_log_contradictions *)

\* initialize_cwp: "current_overall_financial_conclusion"
InitialConclusion == Str("no conclusion yet")

\* the fields of an integration response: updated is "str", "missing" or
\* "nonstr" (a JSON value that is not a string); found is "true", "false" or
\* "missing"; description is "text" (a description of a contradiction),
\* "none" (one of the phrases that say there is none), "missing" or "null"
IntegrationResponse(updated, found, description) ==
    [kind |-> "json", updated |-> updated, found |-> found, description |-> description]

\* what the integration LLM may answer
IntegrationResponses ==
    {Raises, NonJson, JsonNonDict,
     IntegrationResponse("str", "false", "none"),
     IntegrationResponse("str", "true", "text"),
     IntegrationResponse("str", "true", "none"),
     IntegrationResponse("str", "true", "null"),
     IntegrationResponse("nonstr", "false", "none"),
     IntegrationResponse("missing", "missing", "missing")}

\* parsed_update.get("updated_overall_conclusion", prev_overall_conclusion)
UpdatedConclusion(resp, module_name, prev_overall_conclusion) ==
    CASE resp.updated = "str" -> StrOf("conclusion after", module_name)
      [] resp.updated = "missing" -> prev_overall_conclusion
      [] OTHER -> PyInt

\* parsed_update.get("contradiction_description", <default>)
ContradictionDescription(resp) ==
    CASE resp.description = "text" -> Str("contradiction")
      [] resp.description = "none" -> Str("no contradiction")
      [] resp.description = "missing" -> Str("not stated")
      [] OTHER -> PyNone

\* every description counts as one of a contradiction
SaysContradictionAlways(description) == TRUE

\* contradiction_description.lower() not in [<the phrases that say none>]
SaysContradiction(description) == description.s # "no contradiction"

\* contradiction_logbook.append(contradiction_entry)
AppendContradictionOverwrites(logbook, entry) == <<entry>>

AppendContradiction(logbook, entry) == Append(logbook, entry)

\* The state the call works on is [conclusion, logbook]; the result adds
\* called (the LLM was invoked), wrote (line 72 was executed) and exception
\* (one of the handlers at the end of the try block caught something).
update_overall_conclusion_and_log_contradictions(llm_ok, resp, module_name, new_finding_text, new_finding_confidence, cwp_insights) ==
    LET prev_overall_conclusion == cwp_insights.conclusion
        unchanged == [conclusion |-> cwp_insights.conclusion,
                      logbook |-> cwp_insights.logbook,
                      called |-> llm_ok, wrote |-> FALSE, exception |-> FALSE]
    IN IF ~llm_ok THEN unchanged
       ELSE IF resp.kind # "json" THEN [unchanged EXCEPT !.exception = TRUE]
       ELSE LET updated_conclusion ==
                    UpdatedConclusion(resp, module_name, prev_overall_conclusion)
                contradiction_found == resp.found = "true"
                contradiction_description == ContradictionDescription(resp)
                \* line 72: the conclusion is assigned before anything else
                written == [unchanged EXCEPT !.conclusion = updated_conclusion,
                                             !.wrote = TRUE]
                failed == [written EXCEPT !.exception = TRUE]
            IN \* line 73: updated_conclusion[:200] + "..."
               IF ~IsStr(updated_conclusion) THEN failed
               ELSE IF ~contradiction_found THEN written
               \* line 75: contradiction_description.lower()
               ELSE IF ~IsStr(contradiction_description) THEN failed
               ELSE IF ~SaysContradiction(contradiction_description) THEN written
               \* lines 81, 82: the snippets of the finding and of the old conclusion
               ELSE IF ~IsStr(new_finding_text) \/ ~IsStr(prev_overall_conclusion)
                    THEN failed
               ELSE [written EXCEPT !.logbook =
                        AppendContradiction(@,
                            [module_name |-> module_name,
                             module_confidence |-> new_finding_confidence,
                             contradiction_description |-> contradiction_description,
                             module_finding_snippet |-> Snippet(new_finding_text),
                             previous_overall_conclusion_snippet |->
                                 Snippet(prev_overall_conclusion)])]

----------------------------------------------------------------------------
(* integration_services.py: consolidate_risks_and_opportunities *)

\* key_risks and key_opportunities of a consolidation response: "given" (a
\* list of objects as the prompt asks for them), "not objects" (a list whose
\* entries are not JSON objects), "bad source_modules" (a list of objects
\* whose source_modules is a number or a list of numbers) or "missing"
ConsolidationResponses ==
    {Raises, NonJson, JsonNonDict,
     [kind |-> "json", key_risks |-> "given", key_opportunities |-> "given"],
     [kind |-> "json", key_risks |-> "given", key_opportunities |-> "missing"],
     [kind |-> "json", key_risks |-> "not objects", key_opportunities |-> "given"],
     [kind |-> "json", key_risks |-> "given", key_opportunities |-> "bad source_modules"]}

\* a list entry that is not a dict
NotADict == "<not a dict>"

\* a list entry that is a dict whose source_modules cannot be joined
BadSourceModules == "<source_modules not strings>"

\* parsed_risks_ops.get(key, [])
ConsolidatedList(field, item) ==
    IF field = "given" THEN <<item>>
    ELSE IF field = "not objects" THEN <<NotADict>>
    ELSE IF field = "bad source_modules" THEN <<BadSourceModules>>
    ELSE <<>>

\* The result is [key_risks, key_opportunities].
consolidate_risks_and_opportunities(llm_ok, resp, insights) ==
    IF ~llm_ok \/ resp.kind # "json" THEN insights
    ELSE [key_risks |-> ConsolidatedList(resp.key_risks, "R001"),
          key_opportunities |-> ConsolidatedList(resp.key_opportunities, "O001")]

\* parsed_risks_ops.get(key, []) as a Python value; "null" is a JSON null
ConsolidatedValue(field, item) ==
    CASE field = "given" -> PyList(<<item>>)
      [] field = "not objects" -> PyList(<<NotADict>>)
      [] field = "null" -> PyNone
      [] OTHER -> PyList(<<>>)

\* consolidate_risks_and_opportunities on Python values (lines 96-189).  The
\* result is [key_risks, key_opportunities] with called (the LLM was
\* invoked) and exception (a handler of lines 186-189 caught something).
\* Lines 181-182 assign both values before lines 184-185 take their len().
ConsolidateValues(llm_ok, resp, insights) ==
    LET after(r, o, e) == [key_risks |-> r, key_opportunities |-> o,
                           called |-> llm_ok, exception |-> e]
    IN IF ~llm_ok THEN after(insights.key_risks, insights.key_opportunities, FALSE)
       ELSE IF resp.kind # "json"
       THEN after(insights.key_risks, insights.key_opportunities, TRUE)
       ELSE LET r == ConsolidatedValue(resp.key_risks, "R001")
                o == ConsolidatedValue(resp.key_opportunities, "O001")
            IN after(r, o, r.py # "list" \/ o.py # "list")

----------------------------------------------------------------------------
(* reporting.py: generate_and_save_html_report *)

\* Whether building the report raises.  Without a directory of the run the
\* function returns at line 19.  Lines 64-80 call .get on every entry of
\* key_risks and key_opportunities and join its source_modules, outside the
\* try block of lines 145-153.  The entries of the contradiction log, the
\* module outputs and the reports are the ones the program stores: they
\* have the keys and the strings lines 87-92, 111 and 125 read.
generate_and_save_html_report(run_result_dir, insights) ==
    /\ run_result_dir # "none"
    /\ \/ \E i \in DOMAIN insights.key_risks :
              insights.key_risks[i] \in {NotADict, BadSourceModules}
       \/ \E i \in DOMAIN insights.key_opportunities :
              insights.key_opportunities[i] \in {NotADict, BadSourceModules}

----------------------------------------------------------------------------
(* Pre-fetching: tool_services.py and planning_services.py                 *)

NoCall == [kind |-> "none"]

\* a search whose failure is not absorbed
SearchNeverFails(query, resp) == [py |-> "str", s |-> "search result", query |-> query]

\* custom_duckduckgo_search: an exception of the search tool becomes the text
custom_duckduckgo_search(query, resp) ==
    IF resp.kind = "raise" THEN [py |-> "str", s |-> "Error performing search", query |-> query]
    ELSE [py |-> "str", s |-> "search result", query |-> query]

SearchResponses == {Raises, [kind |-> "content"]}

\* what the selector LLM may answer about a list of chunks
SelectorResponses(doc_chunks) ==
    {Raises, NonJson}
    \cup {[kind |-> "json", relevant_chunk_ids |-> v] :
             v \in {PyNone, PyInt, PyList(<<>>), PyList(<<NonStrItem>>),
                    PyList(<<"unknown id">>),
                    PyList(<<doc_chunks[1].chunk_id>>),
                    PyList(<<doc_chunks[Len(doc_chunks)].chunk_id, "unknown id", doc_chunks[1].chunk_id>>)}}

select_relevant_chunks_llm(llm_ok, resp, analysis_contexts, chunk_overviews_with_ids) ==
    IF ~llm_ok \/ chunk_overviews_with_ids = <<>> THEN <<>>
    ELSE IF resp.kind # "json" THEN <<>>
    ELSE LET selected_ids == resp.relevant_chunk_ids IN
         \* a missing key is the empty list
         IF selected_ids.py = "list"
            /\ \A i \in DOMAIN selected_ids.items : IsStrItem(selected_ids.items[i])
         THEN selected_ids.items
         ELSE <<>>

CompressorResponses == {Raises, [kind |-> "content"]}

\* concatenated_text is the list of the chunk texts that were concatenated;
\* it is blank when every one of them is
compress_selected_text_llm(llm_ok, resp, concatenated_text, overall_module_context) ==
    IF ~llm_ok \/ \A i \in DOMAIN concatenated_text : concatenated_text[i] = ""
    THEN [py |-> "str", s |-> "nothing to compress"]
    ELSE IF resp.kind = "raise"
    THEN [py |-> "str", s |-> "compression error", of |-> concatenated_text]
    ELSE [py |-> "str", s |-> "compressed", of |-> concatenated_text,
          context |-> overall_module_context]

\* the input text is passed on whole
TextNeverTruncated(concatenated_text, target_max_chars) == concatenated_text

\* lines 272-276: text_to_compress, of a text of characters
TextToCompress(concatenated_text, target_max_chars) ==
    LET max_compressor_input == target_max_chars * 4 IN
    IF Len(concatenated_text) > max_compressor_input
    THEN Slice(concatenated_text, 0, max_compressor_input)
    ELSE concatenated_text

\* line 299: concatenated_text[:500]
ErrorSnippet(concatenated_text) ==
    IF Len(concatenated_text) > 500 THEN Slice(concatenated_text, 0, 500)
    ELSE concatenated_text

\* compress_selected_text_llm on a text of characters (lines 266-299).
\* prompt is what llm.invoke is given, NoCall when it is not called; result
\* is the string returned.  The response is content, empty content or an
\* exception.
CompressText(llm_ok, resp, concatenated_text, overall_module_context, target_max_chars) ==
    IF ~llm_ok \/ IsBlank(concatenated_text)
    THEN [prompt |-> NoCall, result |-> [py |-> "str", s |-> "nothing to compress"]]
    ELSE LET prompt == [kind |-> "call",
                        text_to_compress |->
                            TextToCompress(concatenated_text, target_max_chars),
                        target_max_chars |-> target_max_chars,
                        context |-> overall_module_context]
         IN [prompt |-> prompt,
             result |->
                 CASE resp.kind = "raise" ->
                          [py |-> "str", s |-> "compression error",
                           snippet |-> ErrorSnippet(concatenated_text)]
                   [] resp.kind = "empty" -> [py |-> "str", s |-> ""]
                   [] OTHER -> [py |-> "str", s |-> "compressed",
                                of |-> prompt.text_to_compress]]

\* one group for every planned extraction
GroupExtractionsPerEntry(groups, extractions) ==
    [i \in DOMAIN extractions |->
        [document_type |-> extractions[i].document_type,
         period_label |-> extractions[i].period_label,
         analysis_contexts |-> <<extractions[i].analysis_context>>]]

\* grouped_extractions: one group for every (document_type, period_label),
\* in the order of first appearance, with the contexts in plan order
RECURSIVE GroupExtractions(_, _)
GroupExtractions(groups, extractions) ==
    IF extractions = <<>> THEN groups
    ELSE LET e == extractions[1]
             hit == {i \in DOMAIN groups :
                        /\ groups[i].document_type = e.document_type
                        /\ groups[i].period_label = e.period_label}
         IN GroupExtractions(
                IF hit = {}
                THEN Append(groups, [document_type |-> e.document_type,
                                     period_label |-> e.period_label,
                                     analysis_contexts |-> <<e.analysis_context>>])
                ELSE [groups EXCEPT ![Min(hit)].analysis_contexts =
                                        Append(@, e.analysis_context)],
                Tail(extractions))

\* doc_chunks_with_overviews of a group: the chunks of the first report with
\* the period label, [] when there is none
ChunksFor(all_reports, dt, pl) ==
    LET hit == {i \in DOMAIN all_reports : all_reports[i].period_label = pl} IN
    IF hit = {} THEN <<>>
    ELSE IF dt = "footnotes"
         THEN all_reports[Min(hit)].footnotes_processed_chunks
         ELSE all_reports[Min(hit)].mda_processed_chunks

\* the original texts of all the chunks
FetchTextsAllChunks(selected_chunk_ids, doc_chunks) ==
    [i \in DOMAIN doc_chunks |-> doc_chunks[i].original_text]

\* the original texts of the selected chunks that exist, in selection order
RECURSIVE FetchTexts(_, _)
FetchTexts(selected_chunk_ids, doc_chunks) ==
    IF selected_chunk_ids = <<>> THEN <<>>
    ELSE LET hit == {i \in DOMAIN doc_chunks : doc_chunks[i].chunk_id = selected_chunk_ids[1]}
         IN (IF hit = {} THEN <<>> ELSE <<doc_chunks[Min(hit)].original_text>>)
            \o FetchTexts(Tail(selected_chunk_ids), doc_chunks)

\* what is appended to all_extracted_contents_for_module for one group,
\* with the call of the selector (line 84) and of the compressor (line 95)
\* that were made for it, NoCall when the line is not reached
ExtractGroup(llm_ok, selResp, cmpResp, module_name, group, all_reports) ==
    LET doc_chunks == ChunksFor(all_reports, group.document_type, group.period_label)
        selected_chunk_ids ==
            select_relevant_chunks_llm(llm_ok, selResp, group.analysis_contexts, doc_chunks)
        concatenated == FetchTexts(selected_chunk_ids, doc_chunks)
        entry(kind, content) ==
            [kind |-> kind, document_type |-> group.document_type,
             period_label |-> group.period_label,
             analysis_contexts |-> group.analysis_contexts, content |-> content,
             selector_call |->
                 IF kind = "no preprocessed chunks" THEN NoCall
                 ELSE [kind |-> "call", analysis_contexts |-> group.analysis_contexts,
                       chunk_overviews_with_ids |-> doc_chunks],
             compressor_call |->
                 IF kind # "extracted" THEN NoCall
                 ELSE [kind |-> "call", concatenated_text |-> concatenated,
                       overall_module_context |->
                           [module |-> module_name, contexts |-> group.analysis_contexts]]]
    IN IF doc_chunks = <<>> THEN entry("no preprocessed chunks", PyNone)
       ELSE IF selected_chunk_ids = <<>> THEN entry("no relevant chunk", PyNone)
       ELSE IF \A i \in DOMAIN concatenated : concatenated[i] = ""
            THEN entry("selected chunks empty", PyNone)
       ELSE entry("extracted",
                  compress_selected_text_llm(llm_ok, cmpResp, concatenated,
                      [module |-> module_name, contexts |-> group.analysis_contexts]))

\* lines 43-59: pre_fetched_search_results_str, as the list of its parts
PreFetchSearch(plan, searchResp) ==
    [i \in DOMAIN plan.search_queries |->
        custom_duckduckgo_search(plan.search_queries[i], searchResp)]

\* lines 61-105: pre_fetched_document_contents_str, as the list of its parts
PreFetchDocuments(llm_ok, selResp, cmpResp, module_name, plan, all_reports) ==
    LET groups == GroupExtractions(<<>>, plan.document_extractions)
    IN [i \in DOMAIN groups |->
           ExtractGroup(llm_ok, selResp, cmpResp, module_name, groups[i], all_reports)]

\* the places of the pre-fetching where an exception was raised and absorbed
PreFetchRaised(llm_ok, searchResp, selResp, cmpResp, module_name, plan, all_reports) ==
    LET groups == GroupExtractions(<<>>, plan.document_extractions)
        docs == PreFetchDocuments(llm_ok, selResp, cmpResp, module_name, plan, all_reports)
    IN (IF plan.search_queries # <<>> /\ searchResp.kind = "raise"
        THEN {"search"} ELSE {})
       \cup (IF /\ llm_ok /\ selResp.kind \in {"raise", "nonjson"}
                /\ \E i \in DOMAIN groups :
                      ChunksFor(all_reports, groups[i].document_type,
                                groups[i].period_label) # <<>>
             THEN {"selector"} ELSE {})
       \cup (IF \E i \in DOMAIN docs : /\ docs[i].kind = "extracted"
                                       /\ docs[i].content.s = "compression error"
             THEN {"compressor"} ELSE {})

----------------------------------------------------------------------------
(* utils.py: get_prior_analyses_summary *)

\* a summarization call raises, or returns content, which may be empty
SummaryResponses == {Raises, [kind |-> "content", content |-> "summary"],
                     [kind |-> "content", content |-> ""]}

\* summary_response.content
SummaryText(resp, module_name) ==
    [py |-> "str", s |-> resp.content, module |-> module_name]

\* line 133: if dep_output_entry.get('abbreviated_summary')
CacheCheckNever(entry) == FALSE

HasCachedSummary(entry) == Truthy(entry.abbreviated_summary)

\* the dependencies whose summary the call asks the LLM for
SummariesToGenerate(llm_ok, current_module_name, outputs) ==
    {d \in Range(MODULE_DEPENDENCIES(current_module_name)) :
        /\ llm_ok
        /\ d \in DOMAIN outputs
        /\ outputs[d].status = "Completed"
        /\ ~HasCachedSummary(outputs[d])
        /\ Truthy(outputs[d].text_summary)}

\* the generated summary takes the place of the dependency's text
SummaryReplacesText(llm_ok, resps, current_module_name, outputs) ==
    LET generate == SummariesToGenerate(llm_ok, current_module_name, outputs) IN
    [d \in DOMAIN outputs |->
        IF d \in generate /\ resps[d].kind = "content"
        THEN [outputs[d] EXCEPT !.text_summary = SummaryText(resps[d], d)]
        ELSE outputs[d]]

\* The module outputs after the call: a generated summary is stored, a
\* failed generation stores nothing.  resps gives the response to the call
\* made for each dependency.
get_prior_analyses_summary(llm_ok, resps, current_module_name, outputs) ==
    LET generate == SummariesToGenerate(llm_ok, current_module_name, outputs) IN
    [d \in DOMAIN outputs |->
        IF d \in generate /\ resps[d].kind = "content"
        THEN [outputs[d] EXCEPT !.abbreviated_summary = SummaryText(resps[d], d)]
        ELSE outputs[d]]

----------------------------------------------------------------------------
(* core_analysis_engine.py: run_llm_module_analysis, lines 146-202 *)

\* the analysis call raises, returns no content, text that is not JSON, JSON
\* that is not an object, or a JSON object; its analysis_text is "str",
\* "missing", "empty", "null" or "nonstr", its confidence_score "given" or
\* "missing"
AnalysisResponses ==
    {Raises, [kind |-> "empty"], NonJson,
     [kind |-> "json", analysis_text |-> "str", confidence_score |-> "given"],
     [kind |-> "json", analysis_text |-> "null", confidence_score |-> "missing"],
     [kind |-> "json", analysis_text |-> "nonstr", confidence_score |-> "given"]}

\* lines 151-164: llm_response_text
LlmResponseText(llm_ok, resp, module_name) ==
    IF ~llm_ok THEN StrOf("LLM not available", module_name)
    ELSE IF resp.kind = "empty" THEN StrOf("LLM response format error", module_name)
    ELSE StrOf("raw response", module_name)

\* lines 168-180: final_analysis_text_content and confidence_score_from_llm,
\* or the exception raised on the way ("" when there is none)
AnalysisContent(llm_ok, resp, module_name) ==
    LET llm_response_text == LlmResponseText(llm_ok, resp, module_name)
        result(e, t, c) == [exception |-> e, text |-> t, confidence |-> c]
    IN IF llm_ok /\ resp.kind = "raise"
       THEN result("llm.invoke failed", PyNone, PyNone)
       ELSE IF ~llm_ok \/ resp.kind = "empty"
       THEN result("", llm_response_text, Str("N/A (no response or error)"))
       ELSE IF resp.kind = "nonjson"
       THEN result("", llm_response_text, Str("N/A (JSON parse failed)"))
       ELSE IF resp.kind = "json_nondict"
       THEN result("no attribute get", PyNone, PyNone)
       ELSE result("",
                   CASE resp.analysis_text = "str" -> StrOf("analysis", module_name)
                     [] resp.analysis_text = "missing" -> llm_response_text
                     [] resp.analysis_text = "empty" -> Str("")
                     [] resp.analysis_text = "null" -> PyNone
                     [] OTHER -> PyInt,
                   IF resp.confidence_score = "given"
                   THEN Str("85%") ELSE Str("N/A (not in JSON)"))

\* the condition of line 182
StatusOf(final_analysis_text_content) ==
    IF /\ Truthy(final_analysis_text_content)
       /\ final_analysis_text_content.s # "LLM produced no valid response"
       /\ final_analysis_text_content.s # "LLM response format error"
    THEN "Completed" ELSE "Error/Incomplete"

ModuleOutput(text_summary, confidence_score, status) ==
    [text_summary |-> text_summary, confidence_score |-> confidence_score,
     status |-> status, abbreviated_summary |-> PyNone]

\* line 143: the output written when the prompt cannot be assembled
PromptErrorOutput ==
    ModuleOutput([py |-> "str", s |-> "prompt generation error",
                  exception |-> "prompt assembly failed"],
                 Str("N/A"), "Error")

\* line 202: the output written by the handler of the analysis block
ErrorOutput(exception) ==
    ModuleOutput([py |-> "str", s |-> "analysis failed", exception |-> exception],
                 Str("N/A (execution error)"), "Error")

\* the exception raised inside the analysis block before the integration,
\* "" when there is none
AnalysisException(llm_ok, resp, module_name) ==
    LET content == AnalysisContent(llm_ok, resp, module_name) IN
    IF content.exception # "" THEN content.exception
    \* line 182: .startswith of a truthy value that is not a string
    ELSE IF Truthy(content.text) /\ ~IsStr(content.text) THEN "no attribute startswith"
    ELSE ""

\* lines 150-182 and 199-202: the output the analysis block writes
AnalysisOutput(llm_ok, resp, module_name) ==
    LET content == AnalysisContent(llm_ok, resp, module_name)
        exception == AnalysisException(llm_ok, resp, module_name)
    IN IF exception # "" THEN ErrorOutput(exception)
       ELSE ModuleOutput(content.text, content.confidence, StatusOf(content.text))

\* line 185: the integration is called for a Completed module only
IntegrationForEveryStatus(status) == TRUE

IntegrationInvoked(status) == status = "Completed"

\* lines 207-212: current_total_modules_to_run
CurrentTotalModulesToRun(planner_enabled, planned) ==
    IF planner_enabled /\ Truthy(planned)
    THEN (IF PyLen(planned) = 0 THEN TOTAL_MODULES_COUNT ELSE PyLen(planned))
    ELSE TOTAL_MODULES_COUNT

\* line 214: min(100, int(completed / total * 100)) if total > 0 else 0
Progress(completed_modules, total) ==
    IF total > 0
    THEN (IF (completed_modules * 100) \div total > 100
          THEN 100 ELSE (completed_modules * 100) \div total)
    ELSE 0

----------------------------------------------------------------------------
(* app.py: the session state and what one script run does with it *)

\* one processed report of the period, with its footnote chunks
ReportOf(label, footnote_chunks) ==
    << [period_label |-> label,
        footnotes_processed_chunks |-> footnote_chunks,
        mda_processed_chunks |-> <<>>] >>

\* a processed chunk of the footnotes of "2023 Annual"
FootnoteChunk(idx, original_text) ==
    [chunk_id |-> "footnotes_2023_Annual_" \o idx, original_text |-> original_text,
     overview_text |-> "overview of " \o original_text]

\* the processed reports of an upload: one period with two footnote chunks
\* and no discussion document
UploadedReports ==
    ReportOf("2023 Annual",
             <<FootnoteChunk("0", "policies"), FootnoteChunk("1", "customers")>>)

\* the same upload when the overview of the second chunk was completed
\* first: preprocess_document_text appends in completion order
UploadedReportsByCompletion ==
    ReportOf("2023 Annual",
             <<FootnoteChunk("1", "customers"), FootnoteChunk("0", "policies")>>)

\* an upload of the three statements of one period, with no footnotes and
\* no discussion document
StatementsOnlyReports == ReportOf("2023 Annual", <<>>)

\* what the test button finds in ./test (lines 231-259): the three
\* statements of one year and no supplementary document
TestDataReports == ReportOf("2023 Annual (test)", <<>>)

\* What the sidebar uploads come to in the start handler (lines 279-338).
\* files: a file was uploaded (line 279); reports: processed_reports_from_ui
\* after the sort; document: a supplementary document reached
\* preprocess_document_text (line 328); raised: an exception reached the
\* handler of line 338, and then line 334 has stored nothing.
Upload(files, reports, document, raised) ==
    [files |-> files, reports |-> reports, document |-> document, raised |-> raised]

Uploads ==
    { Upload(FALSE, <<>>, FALSE, FALSE),   \* nothing uploaded
      Upload(TRUE, <<>>, FALSE, FALSE),    \* no period has the three statements
      Upload(TRUE, <<>>, FALSE, TRUE),     \* a statement of the first period cannot be read
      Upload(TRUE, <<>>, TRUE, TRUE),      \* one of a later period, after a document
      Upload(TRUE, StatementsOnlyReports, FALSE, FALSE),
      Upload(TRUE, UploadedReports, TRUE, FALSE),
      Upload(TRUE, UploadedReportsByCompletion, TRUE, FALSE) }

\* what the test button loads: no period, or the one of TestDataReports
TestLoads == {<<>>, TestDataReports}

\* initialize_cwp: "industry_analysis_conclusion_text"
InitialIndustryConclusion == Str("industry conclusion not generated")

NoIntegration ==
    [module |-> "", called |-> FALSE, wrote |-> FALSE, exception |-> FALSE,
     before |-> InitialConclusion, after |-> InitialConclusion]

NoExecution == [module |-> "", raised |-> {}, propagated |-> FALSE]

\* a value of current_module_processing: a message, about a module or not
Processing(message, m) == [message |-> message, module |-> m]

\* initialize_cwp()
InitCwp ==
    /\ ai_planner_enabled = FALSE
    /\ industry_analysis_conclusion_text = InitialIndustryConclusion
    /\ ai_planned_modules = PyNone
    /\ information_needs_by_module = EmptyDict
    /\ financial_reports = <<>>
    /\ analytical_module_outputs = EmptyDict
    /\ current_overall_financial_conclusion = InitialConclusion
    /\ contradiction_logbook = <<>>
    /\ key_risks = <<>>
    /\ key_opportunities = <<>>

InitObserved ==
    /\ trace = <<>>
    /\ revisions = 0
    /\ sum_calls = [m \in Range(ALL_DEFINED_MODULES_LIST) |-> 0]
    /\ last_integration = NoIntegration
    /\ last_exec = NoExecution
    /\ needs_planning_calls = 0
    /\ varied = 0

\* no chunking call is in progress
ChunkIdle ==
    /\ text = <<>> /\ doc_type = <<>> /\ period_label = <<>>
    /\ max_chars = 1 /\ chunks = <<>> /\ chunk_pc = "idle"

\* no preprocessing call is in progress
PreIdle ==
    /\ chunks_with_text = <<>> /\ futures = <<>> /\ processed_chunks = <<>>
    /\ overview_calls = <<>> /\ pre_pc = "idle"

\* no call of a planning or retrieval function is being examined
CallIdle ==
    /\ call_fn = "none" /\ call_args = <<>> /\ call_result = <<>> /\ call_pc = "idle"

\* the session state of a new session (app.py lines 86-101)
InitSession ==
    /\ analysis_started = FALSE
    /\ analysis_progress = 0
    /\ current_module_processing = Processing("waiting to start", "")
    /\ test_data_loaded_successfully = FALSE
    /\ current_run_result_dir = "none"
    /\ InitCwp
    /\ InitObserved

Init ==
    /\ llm \in BOOLEAN
    /\ InitSession
    /\ ChunkIdle
    /\ PreIdle
    /\ CallIdle

\* st.session_state.cwp = initialize_cwp(), but for company_info and the
\* reports, which the handlers write next; the observations start anew
\* with the working paper
NewWorkingPaper ==
    /\ ai_planned_modules' = PyNone
    /\ information_needs_by_module' = EmptyDict
    /\ analytical_module_outputs' = EmptyDict
    /\ current_overall_financial_conclusion' = InitialConclusion
    /\ contradiction_logbook' = <<>>
    /\ key_risks' = <<>>
    /\ key_opportunities' = <<>>
    /\ trace' = <<>>
    /\ revisions' = 0
    /\ sum_calls' = [m \in Range(ALL_DEFINED_MODULES_LIST) |-> 0]
    /\ last_integration' = NoIntegration
    /\ last_exec' = NoExecution
    /\ needs_planning_calls' = 0
    /\ varied' = 0

\* lines 348-364: modules_for_info_planning.  Iterating the stored plan
\* yields what iterating the Python value yields.
ModulesForInfoPlanning(planner_enabled, planned) ==
    IF planner_enabled
    THEN (IF Truthy(planned) THEN PyIter(planned) ELSE ALL_DEFINED_MODULES_LIST)
    ELSE ALL_DEFINED_MODULES_LIST

\* utils.py, create_run_result_directory: "none" when the base directory
\* cannot be made (line 34).  Line 38 reads the name random, which utils.py
\* does not import: where the name is unbound the call raises there
\* ("raise"); "run dir" is the outcome where the name is bound and the
\* directory of the run is made.
create_run_result_directory == {"none", "raise", "run dir"}

\* The test button (lines 183-268).  The working paper is initialized anew
\* and the analysis called off before the directory is asked for; with a
\* directory the company information of the test company is written (no AI
\* planning, an empty industry conclusion) and the reports found in ./test
\* are stored.
TestButton(created_run_dir, loaded) ==
    /\ llm
    /\ analysis_started' = FALSE
    /\ analysis_progress' = 0
    /\ current_module_processing' = Processing("loading test data", "")
    /\ NewWorkingPaper
    /\ ai_planner_enabled' = FALSE
    /\ IF created_run_dir = "run dir"
       THEN /\ current_run_result_dir' = "run dir"
            /\ industry_analysis_conclusion_text' = Str("")
            /\ financial_reports' = loaded
            /\ test_data_loaded_successfully' = (loaded # <<>>)
       ELSE /\ current_run_result_dir' =
                   IF created_run_dir = "none" THEN "none" ELSE current_run_result_dir
            /\ industry_analysis_conclusion_text' = InitialIndustryConclusion
            /\ financial_reports' = <<>>
            /\ test_data_loaded_successfully' = FALSE
    /\ UNCHANGED <<llm, chunk_vars, pre_vars, call_vars>>

\* The catalog has 32 modules, and a run executes them all.  A run leaves
\* the plain course in at most MaxVariedExecutions places: a start that is
\* not the plain one, or a module execution whose responses are varied
\* freely.  Everywhere else the responses are the plain ones.
MaxVariedExecutions == 1

\* line 292: the uploads are processed, into a new working paper; otherwise
\* the loaded test data are used and the working paper is kept
ProcessesUploads(upload) == ~test_data_loaded_successfully \/ upload.files

\* line 348: analysis_started is still true after the uploads were processed
StartGoesOn(upload) ==
    ProcessesUploads(upload) => ~upload.raised /\ upload.reports # <<>>

\* the plain start: the upload of the period with its footnotes, chunks in
\* submission order, and a needs planner that answers with plans
PlainStart(upload, needsResp) ==
    /\ ProcessesUploads(upload)
    /\ upload.reports = UploadedReports
    /\ needsResp.kind = "json"

\* The start button (lines 278-393), once the directory of the run is made:
\* the uploads are processed or the test data kept, then the route and the
\* information needs are planned.  A start whose uploads give no report, or
\* raise, is called off.
StartAnalysis(planner, upload, routeResp, needsResp) ==
    LET stored_plan == IF ProcessesUploads(upload) THEN PyNone ELSE ai_planned_modules
        planned == IF planner /\ stored_plan.py = "None"
                   THEN get_ai_planned_analysis_route(llm, routeResp,
                                                      ALL_DEFINED_MODULES_LIST)
                   ELSE stored_plan
        planned_before == IF ProcessesUploads(upload) THEN 0 ELSE needs_planning_calls
    IN /\ current_run_result_dir' = "run dir"
       /\ analysis_progress' = 0
       /\ ai_planner_enabled' = planner
       /\ IF ProcessesUploads(upload)
          THEN /\ test_data_loaded_successfully' = FALSE
               /\ industry_analysis_conclusion_text' = InitialIndustryConclusion
               /\ financial_reports' = IF upload.raised THEN <<>> ELSE upload.reports
               /\ analytical_module_outputs' = EmptyDict
               /\ current_overall_financial_conclusion' = InitialConclusion
               /\ contradiction_logbook' = <<>>
               /\ key_risks' = <<>>
               /\ key_opportunities' = <<>>
               /\ trace' = <<>>
               /\ revisions' = 0
               /\ sum_calls' = [m \in Range(ALL_DEFINED_MODULES_LIST) |-> 0]
               /\ last_integration' = NoIntegration
               /\ last_exec' = NoExecution
          ELSE UNCHANGED <<test_data_loaded_successfully,
                           industry_analysis_conclusion_text, financial_reports,
                           analytical_module_outputs,
                           current_overall_financial_conclusion, contradiction_logbook,
                           key_risks, key_opportunities, trace, revisions, sum_calls,
                           last_integration, last_exec>>
       /\ varied' = (IF ProcessesUploads(upload) THEN 0 ELSE varied)
                    + (IF StartGoesOn(upload) /\ ~PlainStart(upload, needsResp)
                       THEN 1 ELSE 0)
       /\ IF StartGoesOn(upload)
          THEN /\ analysis_started' = TRUE
               /\ current_module_processing' = Processing("planning information needs", "")
               /\ ai_planned_modules' = planned
               /\ information_needs_by_module' =
                      plan_all_module_information_needs(
                          llm, needsResp, ModulesForInfoPlanning(planner, planned))
               /\ needs_planning_calls' = planned_before + 1
          ELSE /\ analysis_started' = FALSE
               /\ current_module_processing' =
                      IF upload.document THEN Processing("preprocessing document", "")
                      ELSE Processing("preprocessing and planning", "")
               /\ ai_planned_modules' = PyNone
               /\ information_needs_by_module' = EmptyDict
               /\ needs_planning_calls' = 0
       /\ UNCHANGED <<llm, chunk_vars, pre_vars, call_vars>>

\* lines 270-278: the button is enabled, the LLM is there, and the start goes
\* on when the directory of the run was made
Start(created_run_dir, planner, upload, routeResp, needsResp) ==
    /\ ~analysis_started
    /\ llm
    /\ IF created_run_dir # "run dir" THEN UNCHANGED vars
       ELSE StartAnalysis(planner, upload, routeResp, needsResp)

\* The reset button (lines 395-405)
Reset ==
    /\ analysis_started' = FALSE
    /\ analysis_progress' = 0
    /\ current_module_processing' = Processing("", "")
    /\ test_data_loaded_successfully' = FALSE
    /\ current_run_result_dir' = "none"
    /\ ai_planner_enabled' = FALSE
    /\ industry_analysis_conclusion_text' = InitialIndustryConclusion
    /\ ai_planned_modules' = PyNone
    /\ information_needs_by_module' = EmptyDict
    /\ financial_reports' = <<>>
    /\ analytical_module_outputs' = EmptyDict
    /\ current_overall_financial_conclusion' = InitialConclusion
    /\ contradiction_logbook' = <<>>
    /\ key_risks' = <<>>
    /\ key_opportunities' = <<>>
    /\ trace' = <<>>
    /\ revisions' = 0
    /\ sum_calls' = [m \in Range(ALL_DEFINED_MODULES_LIST) |-> 0]
    /\ last_integration' = NoIntegration
    /\ last_exec' = NoExecution
    /\ needs_planning_calls' = 0
    /\ varied' = 0
    /\ UNCHANGED <<llm, chunk_vars, pre_vars, call_vars>>

----------------------------------------------------------------------------
(* app.py, the main loop (lines 411-504)                                    *)

\* lines 418-440: modules_to_execute_ordered
ModulesToExecuteOrdered ==
    IF ai_planner_enabled /\ Truthy(ai_planned_modules)
    THEN PyIter(ai_planned_modules)
    ELSE ALL_DEFINED_MODULES_LIST

\* lines 418-440: TOTAL_MODULES_TO_RUN_CURRENT
TotalModulesToRunCurrent ==
    IF ai_planner_enabled /\ Truthy(ai_planned_modules)
    THEN PyLen(ai_planned_modules)
    ELSE TOTAL_MODULES_COUNT

\* line 464: analysis_in_progress_main
AnalysisInProgress ==
    Cardinality(DOMAIN analytical_module_outputs) < TotalModulesToRunCurrent

\* lines 495-501: the positions of the modules that have no output yet
PendingPositions ==
    {i \in DOMAIN ModulesToExecuteOrdered :
        ModulesToExecuteOrdered[i] \notin DOMAIN analytical_module_outputs}

\* the last module without an output instead of the first
LastPendingModule ==
    IF PendingPositions = {} THEN ""
    ELSE ModulesToExecuteOrdered[CHOOSE i \in PendingPositions :
                                    \A k \in PendingPositions : k <= i]

\* next_module_to_run, "" for None
NextModuleToRun ==
    IF PendingPositions = {} THEN ""
    ELSE ModulesToExecuteOrdered[Min(PendingPositions)]

\* lines 466 and 502: a module is run in this script run
CanRunNextModule ==
    /\ analysis_started
    /\ AnalysisInProgress
    /\ information_needs_by_module # EmptyDict
    /\ NextModuleToRun # ""
    /\ SectionKeyFor(NextModuleToRun) # 0

----------------------------------------------------------------------------
(* core_analysis_engine.py: run_llm_module_analysis as one step            *)

\* The places where the code of a module execution can raise, and the ones
\* that lie inside a try block whose handler catches Exception:
\* "search" (tool_services.py 22-29), "selector" (planning_services.py
\* 245-264), "compressor" (planning_services.py 291-299), "summary"
\* (utils.py 147-156), "prompt" (lines 130-144), "analysis" (lines 150-202),
\* "integration" (integration_services.py 57-93), "industry summary" (lines
\* 191-197), "consolidation" (integration_services.py 170-189).  The call of
\* the report generator at line 218 ("report") lies in no try block.
HandledButAnalysis ==
    {"search", "selector", "compressor", "summary", "prompt",
     "integration", "industry summary", "consolidation"}

HandledSites ==
    {"search", "selector", "compressor", "summary", "prompt", "analysis",
     "integration", "industry summary", "consolidation"}

Event(ev, m) == [ev |-> ev, module |-> m]

\* The responses of an execution in which every call succeeds and gives
\* what the prompts ask for: search results, a selected chunk, a
\* compression, a summary, an analysis with its confidence, an updated
\* conclusion with the contradiction it found, a list of risks and one of
\* opportunities.
PlainResponses ==
    {NoCall, [kind |-> "content"], [kind |-> "content", content |-> "summary"],
     [kind |-> "json", analysis_text |-> "str", confidence_score |-> "given"],
     IntegrationResponse("str", "true", "text"),
     [kind |-> "json", key_risks |-> "given", key_opportunities |-> "given"]}

\* the plain answer of the selector: the first chunk it was shown
PlainSelection(doc_chunks) ==
    [kind |-> "json", relevant_chunk_ids |-> PyList(<<doc_chunks[1].chunk_id>>)]

\* the responses a call of this execution is drawn from
Drawn(responses) ==
    IF varied < MaxVariedExecutions THEN responses
    ELSE {r \in responses : r \in PlainResponses}

\* the count of varied executions after one whose responses were plain or not
VariedAfter(plain) == IF plain THEN varied ELSE varied + 1

\* the responses to the summarization calls of get_prior_analyses_summary
PriorSummaryResponses(m) ==
    [SummariesToGenerate(llm, m, analytical_module_outputs) -> Drawn(SummaryResponses)]

\* the first group of the plan that has chunks to select from, <<>> if none
ChunksToSelectFrom(plan) ==
    LET groups == GroupExtractions(<<>>, plan.document_extractions)
        with == {i \in DOMAIN groups :
                    ChunksFor(financial_reports, groups[i].document_type,
                              groups[i].period_label) # <<>>}
    IN IF with = {} THEN <<>>
       ELSE ChunksFor(financial_reports, groups[Min(with)].document_type,
                      groups[Min(with)].period_label)

\* whether an exception raised at one of these places leaves the function
Propagates(raised) == ~(raised \subseteq HandledSites)

\* What the execution leaves behind when it ends at line 144 (the prompt
\* could not be assembled) or at an exception nothing catches: the progress,
\* the conclusion and the consolidated lists are as they were.
EndsEarly(m, outputs, calls, events, raised, plain) ==
    /\ analytical_module_outputs' = outputs
    /\ current_module_processing' = Processing("analysing", m)
    /\ sum_calls' = calls
    /\ trace' = trace \o events
    /\ last_exec' = [module |-> m, raised |-> raised, propagated |-> Propagates(raised)]
    /\ varied' = VariedAfter(plain)
    /\ UNCHANGED <<analysis_progress, industry_analysis_conclusion_text,
                   current_overall_financial_conclusion, contradiction_logbook,
                   key_risks, key_opportunities, revisions, last_integration>>

\* lines 204-218: the progress, and when the run is over the consolidation
\* and the report
Finishes(m, outputs, calls, events, raised, plain) ==
    LET completed_modules == Cardinality(DOMAIN outputs)
        total == CurrentTotalModulesToRun(ai_planner_enabled, ai_planned_modules)
        progress == Progress(completed_modules, total)
        over == progress >= 100 /\ completed_modules >= total
    IN \E consResp \in (IF over /\ llm THEN Drawn(ConsolidationResponses)
                        ELSE {NoCall}) :
          LET before == [key_risks |-> key_risks, key_opportunities |-> key_opportunities]
              lists == IF over
                       THEN consolidate_risks_and_opportunities(llm, consResp, before)
                       ELSE before
              \* json.loads raises on text that is not JSON, .get on a value
              \* that is no object: the handlers of lines 186-189
              raisedAll == raised
                           \cup (IF over /\ consResp.kind
                                               \in {"raise", "nonjson", "json_nondict"}
                                 THEN {"consolidation"} ELSE {})
                           \cup (IF over /\ generate_and_save_html_report(
                                                current_run_result_dir, lists)
                                 THEN {"report"} ELSE {})
          IN /\ analytical_module_outputs' = outputs
             /\ analysis_progress' = progress
             /\ current_module_processing' =
                    IF over THEN Processing("analysis complete", "")
                    ELSE Processing("analysing", m)
             /\ sum_calls' = calls
             /\ key_risks' = lists.key_risks
             /\ key_opportunities' = lists.key_opportunities
             /\ trace' = trace \o events
                         \o (IF over THEN <<Event("consolidate", "")>> ELSE <<>>)
             /\ last_exec' = [module |-> m, raised |-> raisedAll,
                              propagated |-> Propagates(raisedAll)]
             /\ varied' = VariedAfter(plain /\ consResp \in PlainResponses)

\* lines 185-198: the integration of a Completed module, then the industry
\* conclusion when the module is the five-forces analysis
Integrates(m, outputs, calls, events, raised, plain) ==
    \E integResp \in (IF llm THEN Drawn(IntegrationResponses) ELSE {NoCall}),
       industryResp \in (IF llm /\ m = "1.1" THEN Drawn(SummaryResponses)
                         ELSE {NoCall}) :
        LET r == update_overall_conclusion_and_log_contradictions(
                     llm, integResp, m, outputs[m].text_summary,
                     outputs[m].confidence_score,
                     [conclusion |-> current_overall_financial_conclusion,
                      logbook |-> contradiction_logbook])
            summarized == m = "1.1" /\ industryResp.kind = "content"
            outputs2 == IF summarized
                        THEN [outputs EXCEPT ![m].abbreviated_summary =
                                                 SummaryText(industryResp, m)]
                        ELSE outputs
            calls2 == IF m = "1.1" /\ llm THEN [calls EXCEPT ![m] = @ + 1] ELSE calls
            raised2 == raised
                       \cup (IF r.exception THEN {"integration"} ELSE {})
                       \cup (IF industryResp.kind = "raise"
                             THEN {"industry summary"} ELSE {})
        IN /\ current_overall_financial_conclusion' = r.conclusion
           /\ contradiction_logbook' = r.logbook
           /\ revisions' = IF r.wrote THEN revisions + 1 ELSE revisions
           /\ last_integration' =
                  [module |-> m, called |-> r.called, wrote |-> r.wrote,
                   exception |-> r.exception,
                   before |-> current_overall_financial_conclusion,
                   after |-> r.conclusion]
           /\ industry_analysis_conclusion_text' =
                  IF m # "1.1" THEN industry_analysis_conclusion_text
                  ELSE IF ~llm THEN Str("LLM unavailable, no industry summary")
                  ELSE IF summarized THEN SummaryText(industryResp, m)
                  ELSE Str("industry summary failed")
           /\ Finishes(m, outputs2, calls2, Append(events, Event("integrate", m)), raised2,
                       plain /\ {integResp, industryResp} \subseteq PlainResponses)

\* lines 146-218, once the prompt is assembled
Analyses(m, outputs, calls, events, raised, plain) ==
    \E analysisResp \in (IF llm THEN Drawn(AnalysisResponses) ELSE {NoCall}) :
        LET output == AnalysisOutput(llm, analysisResp, m)
            raised2 == raised \cup (IF AnalysisException(llm, analysisResp, m) # ""
                                    THEN {"analysis"} ELSE {})
            outputs2 == PutKey(outputs, m, output)
            events2 == Append(events, Event("output", m))
            plain2 == plain /\ analysisResp \in PlainResponses
        IN IF Propagates(raised2) THEN EndsEarly(m, outputs, calls, events, raised2, plain2)
           ELSE IF IntegrationInvoked(output.status)
                THEN Integrates(m, outputs2, calls, events2, raised2, plain2)
                ELSE /\ UNCHANGED <<current_overall_financial_conclusion,
                                    contradiction_logbook, revisions, last_integration,
                                    industry_analysis_conclusion_text>>
                     /\ Finishes(m, outputs2, calls, events2, raised2, plain2)

\* One script run of the main loop that executes the next module
\* (app.py lines 495-504, run_llm_module_analysis lines 24-218).
RunNextModule ==
    /\ CanRunNextModule
    /\ LET m == NextModuleToRun
           module_info_needs_plan ==
               IF m \in DOMAIN information_needs_by_module
               THEN information_needs_by_module[m] ELSE EmptyNeeds
           selectable == ChunksToSelectFrom(module_info_needs_plan)
       IN \E searchResp \in (IF module_info_needs_plan.search_queries # <<>>
                             THEN Drawn(SearchResponses) ELSE {NoCall}),
             selResp \in (IF selectable # <<>> /\ llm
                          THEN (IF varied < MaxVariedExecutions
                                THEN SelectorResponses(selectable)
                                ELSE {PlainSelection(selectable)})
                          ELSE {NoCall}),
             cmpResp \in (IF selectable # <<>> /\ llm
                          THEN Drawn(CompressorResponses) ELSE {NoCall}),
             sumResps \in PriorSummaryResponses(m),
             promptRaises \in (IF varied < MaxVariedExecutions
                               THEN BOOLEAN ELSE {FALSE}) :
            LET generate == SummariesToGenerate(llm, m, analytical_module_outputs)
                outputs1 == get_prior_analyses_summary(llm, sumResps, m,
                                                       analytical_module_outputs)
                calls1 == [d \in DOMAIN sum_calls |->
                              IF d \in generate THEN sum_calls[d] + 1 ELSE sum_calls[d]]
                raised1 ==
                    PreFetchRaised(llm, searchResp, selResp, cmpResp, m,
                                   module_info_needs_plan, financial_reports)
                    \cup (IF \E d \in generate : sumResps[d].kind = "raise"
                          THEN {"summary"} ELSE {})
                    \cup (IF promptRaises THEN {"prompt"} ELSE {})
                plain1 == /\ {searchResp, cmpResp} \subseteq PlainResponses
                          /\ selectable # <<>> /\ llm => selResp = PlainSelection(selectable)
                          /\ \A d \in generate : sumResps[d] \in PlainResponses
                          /\ ~promptRaises
                begun == <<Event("begin", m)>>
            IN IF Propagates(raised1)
               THEN EndsEarly(m, outputs1, calls1, begun, raised1, plain1)
               ELSE IF promptRaises
               THEN EndsEarly(m, PutKey(outputs1, m, PromptErrorOutput), calls1,
                              Append(begun, Event("output", m)), raised1, plain1)
               ELSE Analyses(m, outputs1, calls1, begun, raised1, plain1)
    /\ UNCHANGED <<llm, chunk_vars, pre_vars, call_vars, analysis_started, ai_planner_enabled,
                   ai_planned_modules, information_needs_by_module, financial_reports,
                   needs_planning_calls, test_data_loaded_successfully,
                   current_run_result_dir>>

\* a script run that does not leave the main loop before line 442 plans the
\* information needs when none are stored
FirstRunPlanningOnFirstRerun ==
    /\ analysis_started
    /\ trace = <<>>
    /\ current_module_processing.message # "first-run planning of information needs"

\* line 442: no information needs are stored and there are modules to run
FirstRunPlanningDue ==
    /\ analysis_started
    /\ information_needs_by_module = EmptyDict
    /\ ModulesToExecuteOrdered # <<>>

\* lines 443-462: the information needs are planned for the modules to run
FirstRunPlanning(needsResp) ==
    /\ current_module_processing' =
           Processing("first-run planning of information needs", "")
    /\ information_needs_by_module' =
           plan_all_module_information_needs(llm, needsResp, ModulesToExecuteOrdered)
    /\ needs_planning_calls' = needs_planning_calls + 1
    /\ UNCHANGED <<llm, chunk_vars, pre_vars, call_vars, analysis_started,
                   analysis_progress, test_data_loaded_successfully,
                   current_run_result_dir, ai_planner_enabled,
                   industry_analysis_conclusion_text, ai_planned_modules,
                   financial_reports, analytical_module_outputs,
                   current_overall_financial_conclusion, contradiction_logbook,
                   key_risks, key_opportunities, trace, revisions, sum_calls,
                   last_integration, last_exec, varied>>

\* One script run of the main loop (lines 411-504)
MainLoop ==
    IF FirstRunPlanningDue
    THEN \E needsResp \in NeedsResponses : FirstRunPlanning(needsResp)
    ELSE RunNextModule

\* line 367: this start calls the needs planner
PlansNeeds(created_run_dir, upload) ==
    created_run_dir = "run dir" /\ StartGoesOn(upload)

\* line 350: this start calls the route planner
PlansRoute(created_run_dir, planner, upload) ==
    /\ PlansNeeds(created_run_dir, upload)
    /\ planner
    /\ ProcessesUploads(upload) \/ ai_planned_modules.py = "None"

\* One script run: a button handler of the sidebar, or the main loop
Next ==
    \/ \E created_run_dir \in create_run_result_directory :
          \E loaded \in (IF created_run_dir = "run dir" THEN TestLoads ELSE {<<>>}) :
             TestButton(created_run_dir, loaded)
    \/ \E created_run_dir \in create_run_result_directory,
          planner \in BOOLEAN, upload \in Uploads :
          \E routeResp \in (IF PlansRoute(created_run_dir, planner, upload)
                             THEN RouteResponses ELSE {NoCall}),
             needsResp \in (IF PlansNeeds(created_run_dir, upload)
                             THEN NeedsResponses ELSE {NoCall}) :
              Start(created_run_dir, planner, upload, routeResp, needsResp)
    \/ MainLoop
    \/ Reset

Spec == Init /\ [][Next]_vars

----------------------------------------------------------------------------
(* SpecChunk: the function applied to every bounded input *)

RECURSIVE TextsUpTo(_)
TextsUpTo(n) ==
    IF n = 0 THEN {<<>>}
    ELSE LET shorter == TextsUpTo(n - 1)
         IN shorter \cup {Append(t, c) : t \in {u \in shorter : Len(u) = n - 1},
                                         c \in Alphabet}

\* (doc_type, period_label) pairs: "footnotes" of "2023 Annual", "mda" of "Q1"
ChunkDocs ==
    { <<(<<"f", "o", "o", "t", "n", "o", "t", "e", "s">>),
        (<<"2", "0", "2", "3", " ", "A", "n", "n", "u", "a", "l">>)>>,
      <<(<<"m", "d", "a">>), (<<"Q", "1">>)>> }

InitChunk ==
    /\ text \in TextsUpTo(MaxTextLen)
    /\ \E d \in ChunkDocs : doc_type = d[1] /\ period_label = d[2]
    /\ max_chars \in 1..MaxCharsBound
    /\ chunks = <<>>
    /\ chunk_pc = "call"
    /\ llm = TRUE
    /\ InitSession
    /\ PreIdle
    /\ CallIdle

SmartChunk ==
    /\ chunk_pc = "call"
    /\ chunks' = smart_chunk_document(text, doc_type, period_label, max_chars)
    /\ chunk_pc' = "done"
    /\ UNCHANGED <<text, doc_type, period_label, max_chars>>
    /\ UNCHANGED <<llm, pre_vars, call_vars, session_vars, cwp_vars, observed_vars>>

NextChunk == SmartChunk

SpecChunk == InitChunk /\ [][NextChunk]_vars

----------------------------------------------------------------------------
(* Claims about smart_chunk_document *)

RECURSIVE Flatten(_)
Flatten(ws) == IF ws = <<>> THEN <<>> ELSE ws[1] \o Flatten(Tail(ws))

\* the places where one word ends, counted in non-blank characters
RECURSIVE WordEnds(_, _)
WordEnds(ws, base) ==
    IF ws = <<>> THEN {}
    ELSE {base + Len(ws[1])} \cup WordEnds(Tail(ws), base + Len(ws[1]))

\* the words of all chunk texts, in list order
RECURSIVE ChunkWords(_)
ChunkWords(cs) ==
    IF cs = <<>> THEN <<>> ELSE SplitWords(cs[1].text) \o ChunkWords(Tail(cs))

\* C8: for a text with a non-blank character the chunk list is non-empty and the
\* chunk texts, separators ignored, spell the input's tokens once and in order,
\* a hard-split token being the concatenation of its pieces (no chunk word
\* straddles two tokens); a blank or empty text gives the empty list.
C8_ChunkingTotality ==
    chunk_pc = "done" =>
        IF IsBlank(text) THEN chunks = <<>>
        ELSE /\ chunks # <<>>
             /\ \A i \in 1..Len(chunks) : ~IsBlank(chunks[i].text)
             /\ Flatten(ChunkWords(chunks)) = Flatten(SplitWords(text))
             /\ WordEnds(SplitWords(text), 0) \subseteq WordEnds(ChunkWords(chunks), 0)

C8_Witness ==
    /\ chunk_pc = "done"
    /\ Len(SplitWords(text)) >= 3
    /\ Len(chunks) >= 2
    /\ \E i \in 1..Len(chunks) : Len(SplitWords(chunks[i].text)) >= 2

\* C9: every chunk text, joining spaces included, is at most max_chars long
\* (max_chars >= 1); a token longer than max_chars is cut into pieces.
C9_ChunkSizeBound ==
    chunk_pc = "done" =>
        \A i \in 1..Len(chunks) : Len(chunks[i].text) <= max_chars

C9_Witness ==
    /\ chunk_pc = "done"
    /\ \E i \in 1..Len(SplitWords(text)) : Len(SplitWords(text)[i]) > 2 * max_chars
    /\ Len(chunks) >= 3

\* C10: the chunk ids of one call are pairwise distinct; the id of the k-th
\* chunk (k = 0, 1, 2, ...) is doc_type, the period label with spaces turned
\* into underscores, and k, whatever section or hard split produced the chunk.
C10_ChunkIdSequential ==
    chunk_pc = "done" =>
        /\ \A i \in 1..Len(chunks) :
              chunks[i].chunk_id =
                  doc_type \o <<"_">>
                  \o [k \in 1..Len(period_label) |->
                         IF period_label[k] = " " THEN "_" ELSE period_label[k]]
                  \o <<"_">> \o Decimal(i - 1)
        /\ \A i, j \in 1..Len(chunks) : i # j => chunks[i].chunk_id # chunks[j].chunk_id

C10_Witness ==
    /\ chunk_pc = "done"
    /\ Len(RawSections(text, max_chars)) >= 2
    /\ \E i \in 1..Len(SplitWords(text)) : Len(SplitWords(text)[i]) > max_chars
    /\ Len(chunks) >= 3
    /\ \E k \in 1..Len(period_label) : period_label[k] = " "

----------------------------------------------------------------------------
(* SpecPre: preprocess_document_text (document_processing.py lines 82-149) *)

CHUNK_MAX_CHARS_FOR_OVERVIEW == 4000
MAX_THREADS_FOR_OVERVIEW == 3

\* The largest number of chunks of a preprocessed document
MaxPreChunks == 4

\* a document of n paragraphs "w1", "w2", ... separated by blank lines
RECURSIVE ParagraphsText(_)
ParagraphsText(n) ==
    IF n = 0 THEN <<>>
    ELSE (IF n = 1 THEN <<>> ELSE ParagraphsText(n - 1) \o <<"\n", "\n">>)
         \o <<"w">> \o Decimal(n)

\* the documents handed to preprocess_document_text: empty, blank, and of
\* one to MaxPreChunks paragraphs
PreDocs == {ParagraphsText(n) : n \in 0..MaxPreChunks} \cup {<<" ", "\n">>}

\* an overview text; of is the chunk text it was generated from, <<>> for a
\* text that is generated from none
Overview(t, of) == [py |-> "str", s |-> t, of |-> of]

\* a future of the executor: not yet submitted
NoFuture == [state |-> "none", raised |-> FALSE, overview |-> Overview("", <<>>)]

\* what a worker's llm.invoke and logging may do: content is returned, the
\* call raises (caught at line 101), or the logging of a worker thread
\* raises at line 99 and again in the handler at line 102
OverviewResponses == {[kind |-> "content"], Raises, [kind |-> "log raises"]}

\* generate_chunk_overview_llm: the result of the future
generate_chunk_overview_llm(llm_ok, resp, chunk_text, chunk_id) ==
    IF ~llm_ok
    THEN [raised |-> FALSE, overview |-> Overview("Error: LLM not available", <<>>)]
    ELSE IF resp.kind = "content"
    THEN [raised |-> FALSE, overview |-> Overview("overview", chunk_text)]
    \* response.content is returned as it is, the empty string included
    ELSE IF resp.kind = "empty"
    THEN [raised |-> FALSE, overview |-> Overview("", <<>>)]
    ELSE IF resp.kind = "raise"
    THEN [raised |-> FALSE, overview |-> Overview("Error generating overview", <<>>)]
    ELSE [raised |-> TRUE, overview |-> Overview("", <<>>)]

\* an entry of processed_chunks
ProcessedChunk(chunk_id, original_text, overview_text) ==
    [chunk_id |-> chunk_id, original_text |-> original_text,
     overview_text |-> overview_text]

\* lines 126-130: the entry of a chunk whose text is blank
EmptyChunkEntry(chunk) ==
    ProcessedChunk(chunk.chunk_id, <<>>, Overview("chunk empty, no overview", <<>>))

\* futures_map[future]: the position of the chunk the future was submitted for
FuturesMapByCompletion(i, collected) == collected + 1

FuturesMap(i, collected) == i

\* lines 133-147: processed_chunks after the result of a future is taken
AfterResultDropsFailed(processed, chunk_data, future) ==
    IF future.raised THEN processed
    ELSE Append(processed, ProcessedChunk(chunk_data.chunk_id, chunk_data.text,
                                          future.overview))

AfterResult(processed, chunk_data, future) ==
    Append(processed,
           ProcessedChunk(chunk_data.chunk_id, chunk_data.text,
                          IF future.raised
                          THEN Overview("overview generation failed", <<>>)
                          ELSE future.overview))

FuturesIn(state) == {i \in DOMAIN futures : futures[i].state = state}

\* ThreadPoolExecutor(max_workers=MAX_THREADS_FOR_OVERVIEW): a worker is free
PoolUnbounded(running) == TRUE

PoolHasIdleWorker(running) == Cardinality(running) < MAX_THREADS_FOR_OVERVIEW

PreFrame ==
    UNCHANGED <<text, doc_type, period_label, max_chars, chunks, chunk_pc,
                call_vars, llm, session_vars, cwp_vars, observed_vars>>

InitPre ==
    /\ text \in PreDocs
    /\ \E d \in ChunkDocs : doc_type = d[1] /\ period_label = d[2]
    /\ max_chars = 1 /\ chunks = <<>> /\ chunk_pc = "idle"
    /\ llm \in BOOLEAN
    /\ InitSession
    /\ chunks_with_text = <<>> /\ futures = <<>> /\ processed_chunks = <<>>
    /\ overview_calls = <<>>
    /\ pre_pc = "call"
    /\ CallIdle

\* lines 107-118: the guards and the chunking
PreprocessCall ==
    /\ pre_pc = "call"
    /\ LET cs == IF IsBlank(text) THEN <<>>
                 ELSE smart_chunk_document(text, doc_type, period_label,
                                           CHUNK_MAX_CHARS_FOR_OVERVIEW)
       IN /\ chunks_with_text' = cs
          /\ futures' = [i \in DOMAIN cs |-> NoFuture]
          /\ overview_calls' = [i \in DOMAIN cs |-> [worker |-> 0, llm |-> 0]]
          /\ pre_pc' = IF cs = <<>> THEN "done" ELSE "submitting"
    /\ UNCHANGED processed_chunks
    /\ PreFrame

\* lines 120-130: one iteration of the submitting loop, or its end
Submit ==
    /\ pre_pc = "submitting"
    /\ IF FuturesIn("none") = {}
       THEN /\ pre_pc' = "collecting"
            /\ UNCHANGED <<futures, processed_chunks>>
       ELSE LET k == Min(FuturesIn("none"))
                chunk == chunks_with_text[k]
            IN /\ pre_pc' = pre_pc
               /\ IF ~IsBlank(chunk.text)
                  THEN /\ futures' = [futures EXCEPT ![k].state = "queued"]
                       /\ UNCHANGED processed_chunks
                  ELSE /\ futures' = [futures EXCEPT ![k].state = "skipped"]
                       /\ processed_chunks' =
                              Append(processed_chunks, EmptyChunkEntry(chunk))
    /\ UNCHANGED <<chunks_with_text, overview_calls>>
    /\ PreFrame

\* a free worker of the pool takes the oldest queued call and begins it
\* (lines 84-97)
WorkerStart ==
    /\ FuturesIn("queued") # {}
    /\ PoolHasIdleWorker(FuturesIn("running"))
    /\ LET i == Min(FuturesIn("queued"))
       IN /\ futures' = [futures EXCEPT ![i].state = "running"]
          /\ overview_calls' =
                 [overview_calls EXCEPT ![i].worker = @ + 1,
                                        ![i].llm = IF llm THEN @ + 1 ELSE @]
    /\ UNCHANGED <<chunks_with_text, processed_chunks, pre_pc>>
    /\ PreFrame

\* a running call ends (lines 97-103)
WorkerFinish ==
    /\ \E i \in FuturesIn("running") :
         \E resp \in (IF llm THEN OverviewResponses ELSE {NoCall}) :
            LET r == generate_chunk_overview_llm(llm, resp, chunks_with_text[i].text,
                                                 chunks_with_text[i].chunk_id)
            IN futures' = [futures EXCEPT ![i] = [state |-> "finished",
                                                  raised |-> r.raised,
                                                  overview |-> r.overview]]
    /\ UNCHANGED <<chunks_with_text, processed_chunks, overview_calls, pre_pc>>
    /\ PreFrame

\* lines 132-147: as_completed yields a finished future
Collect ==
    /\ pre_pc = "collecting"
    /\ \E i \in FuturesIn("finished") :
          LET chunk_data == chunks_with_text[FuturesMap(i, Len(processed_chunks))]
          IN /\ processed_chunks' = AfterResult(processed_chunks, chunk_data, futures[i])
             /\ futures' = [futures EXCEPT ![i].state = "collected"]
    /\ UNCHANGED <<chunks_with_text, overview_calls, pre_pc>>
    /\ PreFrame

\* lines 148-149: every future was yielded and the executor is shut down
PreprocessReturn ==
    /\ pre_pc = "collecting"
    /\ \A i \in DOMAIN futures : futures[i].state \in {"collected", "skipped"}
    /\ pre_pc' = "done"
    /\ UNCHANGED <<chunks_with_text, futures, processed_chunks, overview_calls>>
    /\ PreFrame

NextPre ==
    \/ PreprocessCall
    \/ Submit
    \/ WorkerStart
    \/ WorkerFinish
    \/ Collect
    \/ PreprocessReturn

SpecPre == InitPre /\ [][NextPre]_vars

----------------------------------------------------------------------------
(* SpecCalls: single calls of the planners and of the document pre-fetch *)

\* The longest module list a planner response carries in a single call
MaxPlanLen == 3

\* The longest document_extractions list of a needs response in a single call
MaxExtractions == 2

\* an item of document_extractions that carries a fourth key
ExtraFieldItem(dt, pl, ctx) ==
    [py |-> "dict", document_type |-> dt, period_label |-> pl,
     analysis_context |-> ctx, note |-> "extra"]

\* what the route planner LLM may answer in a single call
PlanRouteResponses ==
    {Raises, NonJson, JsonNonDict}
    \cup {[kind |-> "json", planned_modules |-> pm, planning_reasoning |-> r] :
             pm \in {PyNone, Str("not a list"),
                     PyList(<<ALL_DEFINED_MODULES_LIST[1], NonStrItem>>)}
                    \cup {PyList(l) : l \in SeqsUpTo(Range(AnsweredModules)
                                                     \cup {"9.9"}, MaxPlanLen)},
             r \in {"given", "missing", "nonstr"}}

\* the items a document_extractions list of a single call is made of
ExtractionItems ==
    {ExtractionItem("footnotes", "2023 Annual", "policy"),
     ExtractionItem("mda", "2023 Annual", "outlook"),
     ExtractionItem("mda", "<missing>", "outlook"),
     ExtractionItem("footnotes", "2023 Annual", NonStrItem),
     ExtraFieldItem("footnotes", "2023 Annual", "customers"),
     PyInt}

\* what the LLM may answer for one module in a single call
ModulePlans ==
    {PyInt}
    \cup {RawNeeds(sq, de) :
             sq \in {PyNone, Str("not a list"), PyList(<<>>),
                     PyList(<<"query 1", NonStrItem, "query 2">>)},
             de \in {PyNone} \cup {PyList(l) : l \in SeqsUpTo(ExtractionItems,
                                                              MaxExtractions)}}

\* what the needs planner LLM may answer in a single call: any answer for
\* the first module of the catalog; for the second none, one that is not an
\* object, or a well-formed one; and possibly one for a name outside it
PlanNeedsResponses ==
    {Raises, NonJson, JsonNonDict}
    \cup {[kind |-> "json", plans |-> [m \in {ALL_DEFINED_MODULES_LIST[1]} \cup D |->
                                          IF m = ALL_DEFINED_MODULES_LIST[1] THEN p1
                                          ELSE IF m = ALL_DEFINED_MODULES_LIST[2] THEN p2
                                          ELSE RawNeeds(PyList(<<>>), PyList(<<>>))]] :
             p1 \in ModulePlans,
             p2 \in {PyInt, RawNeeds(PyList(<<"query 3">>),
                                     PyList(<<ExtractionItem("mda", "2023 Annual", "risk")>>))},
             D \in SUBSET {ALL_DEFINED_MODULES_LIST[2], "9.9"}}
    \cup {[kind |-> "json", plans |-> EmptyDict]}

\* the arguments of one call of get_ai_planned_analysis_route
RouteCalls ==
    {[resp |-> r, modules |-> ALL_DEFINED_MODULES_LIST] : r \in PlanRouteResponses}

\* the arguments of one call of plan_all_module_information_needs: the
\* modules are a run of the catalog (none when i > j) or its first two in
\* the other order
NeedsCalls ==
    {[resp |-> r, modules |-> ms] :
        r \in PlanNeedsResponses,
        ms \in {SubSeq(AnsweredModules, i, j) : i, j \in 1..NumModules}
               \cup {<<ALL_DEFINED_MODULES_LIST[2], ALL_DEFINED_MODULES_LIST[1]>>}}

\* The longest document_extractions list of a module plan in a single call
MaxPreFetchExtractions == 2

\* the reports of a single call of the pre-fetch: a period with both
\* documents and a period with footnotes only
PreFetchReports ==
    << [period_label |-> "2023 Annual",
        footnotes_processed_chunks |->
            << [chunk_id |-> "footnotes_2023_Annual_0", original_text |-> "policies",
                overview_text |-> "overview of policies"],
               [chunk_id |-> "footnotes_2023_Annual_1", original_text |-> "customers",
                overview_text |-> "overview of customers"] >>,
        mda_processed_chunks |->
            << [chunk_id |-> "mda_2023_Annual_0", original_text |-> "outlook",
                overview_text |-> "overview of outlook"],
               [chunk_id |-> "mda_2023_Annual_1", original_text |-> "risks",
                overview_text |-> "overview of risks"] >>],
       [period_label |-> "2022 Annual",
        footnotes_processed_chunks |->
            << [chunk_id |-> "footnotes_2022_Annual_0", original_text |-> "leases",
                overview_text |-> "overview of leases"] >>,
        mda_processed_chunks |-> <<>>] >>

\* the validated extractions a module plan of a single call is made of: two
\* for the same document, one for a document without chunks, one for a
\* period that was not uploaded, one for a third document type
PreFetchItems ==
    {ExtractionItem("footnotes", "2023 Annual", "policy"),
     ExtractionItem("footnotes", "2023 Annual", "customers"),
     ExtractionItem("mda", "2023 Annual", "outlook"),
     ExtractionItem("mda", "2022 Annual", "outlook"),
     ExtractionItem("footnotes", "2021 Annual", "policy"),
     ExtractionItem("cash flow statement", "2023 Annual", "cash")}

\* what the selector LLM and the compressor LLM do for each group of a
\* plan, NoCall where the LLM is not asked
RECURSIVE GroupResponses(_, _)
GroupResponses(groups, all_reports) ==
    IF groups = <<>> THEN {<<>>}
    ELSE LET doc_chunks == ChunksFor(all_reports, groups[1].document_type,
                                     groups[1].period_label)
             HasText(sel) ==
                 \E t \in Range(FetchTexts(
                        select_relevant_chunks_llm(TRUE, sel, groups[1].analysis_contexts,
                                                   doc_chunks), doc_chunks)) : t # ""
             first == IF doc_chunks = <<>> THEN {[sel |-> NoCall, cmp |-> NoCall]}
                      ELSE {[sel |-> sel, cmp |-> cmp] :
                               sel \in SelectorResponses(doc_chunks),
                               cmp \in CompressorResponses \cup {NoCall}}
         IN {<<r>> \o rest :
                r \in {x \in first : x.cmp = NoCall <=> ~HasText(x.sel)},
                rest \in GroupResponses(Tail(groups), all_reports)}

\* the arguments of one execution of the document pre-fetch of a module
PreFetchCall(de, rs) ==
    [plan |-> [search_queries |-> <<>>, document_extractions |-> de],
     all_reports |-> PreFetchReports, resps |-> rs]

\* the validated extractions of an execution that goes on to the analysis
\* call: one of each document that has chunks
ModuleRunItems ==
    {ExtractionItem("footnotes", "2023 Annual", "policy"),
     ExtractionItem("mda", "2023 Annual", "outlook")}

\* the arguments of one execution of a module up to its analysis call: the
\* plan of the module, what the search tool does, what the selector and the
\* compressor do for each group, whether the prompt assembly raises, and
\* what the analysis LLM answers
ModuleRunCall(sq, de, sr, rs, pr, ar) ==
    [plan |-> [search_queries |-> sq, document_extractions |-> de],
     all_reports |-> PreFetchReports, search |-> sr, resps |-> rs,
     prompt_raises |-> pr, resp |-> ar]

\* The largest target_max_chars of a single call of the compressor
MaxTargetChars == 2

\* The longest text of a single call of the compressor
MaxCompressLen == 9

\* a text of n letters
LettersText(n) == [i \in 1..n |-> <<"a", "b", "c">>[((i - 1) % 3) + 1]]

\* a text of k blank characters
BlankText(k) == [i \in 1..k |-> IF i % 2 = 1 THEN " " ELSE "\n"]

\* what the compressor LLM does in a single call
CompressCallResponses == CompressorResponses \cup {[kind |-> "empty"]}

\* the arguments of one call of compress_selected_text_llm
CompressCalls ==
    {[resp |-> r, concatenated_text |-> BlankText(k) \o LettersText(n),
      overall_module_context |-> "context", target_max_chars |-> t] :
        r \in CompressCallResponses, k \in 0..2, n \in 0..MaxCompressLen,
        t \in 0..MaxTargetChars}

\* what the integration LLM does in a single call: every combination of the
\* three fields besides the responses that are no JSON object
IntegrationCallResponses ==
    {Raises, NonJson, JsonNonDict}
    \cup {IntegrationResponse(u, f, d) :
             u \in {"str", "missing", "nonstr"}, f \in {"true", "false", "missing"},
             d \in {"text", "none", "missing", "null"}}

\* a contradiction logged by an earlier integration
EarlierContradiction ==
    [module_name |-> ALL_DEFINED_MODULES_LIST[1], module_confidence |-> Str("70%"),
     contradiction_description |-> Str("contradiction"),
     module_finding_snippet |-> Snippet(StrOf("analysis", ALL_DEFINED_MODULES_LIST[1])),
     previous_overall_conclusion_snippet |-> Snippet(InitialConclusion)]

\* the arguments of one call of
\* update_overall_conclusion_and_log_contradictions and the conclusion and
\* the log it finds; the finding is a string or, from a JSON analysis_text
\* that is none, another value
IntegrationCalls ==
    {[resp |-> r, module_name |-> ALL_DEFINED_MODULES_LIST[2],
      new_finding_text |-> t, new_finding_confidence |-> Str("80%"),
      cwp_insights |-> [conclusion |-> c, logbook |-> l]] :
        r \in IntegrationCallResponses,
        t \in {StrOf("analysis", ALL_DEFINED_MODULES_LIST[2]), PyInt},
        c \in {InitialConclusion, StrOf("conclusion after", ALL_DEFINED_MODULES_LIST[1])},
        l \in {<<>>, <<EarlierContradiction>>}}

\* what the consolidation LLM does in a single call: every combination of
\* the two keys besides the responses that are no JSON object
ConsolidationCallResponses ==
    {Raises, NonJson, JsonNonDict}
    \cup {[kind |-> "json", key_risks |-> r, key_opportunities |-> o] :
             r, o \in {"given", "not objects", "missing", "null"}}

\* the arguments of one call of consolidate_risks_and_opportunities and the
\* two lists it finds: those of initialize_cwp or those of an earlier call
ConsolidationCalls ==
    {[resp |-> r, insights |-> [key_risks |-> PyList(k), key_opportunities |-> PyList(o)]] :
        r \in ConsolidationCallResponses,
        k \in {<<>>, <<"R000">>}, o \in {<<>>, <<"O000">>}}

\* what the selector LLM does in a single call about the chunks of a
\* document: besides the answers of SelectorResponses, empty content and
\* JSON that is no object
SelectCallResponses(doc_chunks) ==
    SelectorResponses(doc_chunks) \cup {JsonNonDict, [kind |-> "empty"]}

\* the arguments of one call of select_relevant_chunks_llm: the chunks of a
\* document of PreFetchReports or no chunk at all
SelectCalls ==
    LET doc_chunks == PreFetchReports[1].footnotes_processed_chunks IN
    {[resp |-> r, analysis_contexts |-> <<"policy">>, chunk_overviews_with_ids |-> c] :
        r \in SelectCallResponses(doc_chunks), c \in {<<>>, doc_chunks}}

\* what the overview LLM and the logging do in a single call: besides the
\* outcomes of OverviewResponses, content that is empty
OverviewCallResponses == OverviewResponses \cup {[kind |-> "empty"]}

\* the arguments of one call of generate_chunk_overview_llm
OverviewCalls ==
    LET doc_chunks == PreFetchReports[1].footnotes_processed_chunks IN
    {[resp |-> r, chunk_text |-> doc_chunks[i].original_text,
      chunk_id |-> doc_chunks[i].chunk_id] :
        r \in OverviewCallResponses, i \in DOMAIN doc_chunks}

\* the arguments of one call of custom_duckduckgo_search
SearchCalls ==
    {[resp |-> r, query |-> q] : r \in SearchResponses, q \in {"industry outlook", ""}}

\* what the analysis LLM does in a single call: besides the answers of
\* AnalysisResponses, JSON that is no object and JSON objects whose
\* analysis_text is missing or empty
AnalysisCallResponses ==
    AnalysisResponses
    \cup {JsonNonDict}
    \cup {[kind |-> "json", analysis_text |-> a, confidence_score |-> "given"] :
             a \in {"missing", "empty"}}

\* the arguments of one execution of the analysis block of a module
AnalysisCalls ==
    {[resp |-> r, module_name |-> m] :
        r \in AnalysisCallResponses, m \in Range(AnsweredModules)}

\* config.py line 59 without the bound of the run: every module of the
\* framework, in the order the sections list them
CatalogOrder == ConcatAll(ANALYSIS_FRAMEWORK_SECTIONS)

\* utils.py lines 129-130: the dependencies of the module that have an
\* entry in the module-output map
DependenciesFound(current_module_name, outputs) ==
    SelectSeq(MODULE_DEPENDENCIES(current_module_name), LAMBDA d : d \in DOMAIN outputs)

\* the module-output map of a run with AI planning disabled that is about
\* to execute the module at position i of the catalog: every module before
\* it has its output, Completed or not
OutputsBefore(i, status) ==
    [d \in {CatalogOrder[k] : k \in 1..(i - 1)} |->
        ModuleOutput(StrOf("analysis", d), Str("85%"), status)]

\* the arguments of one call of get_prior_analyses_summary, with the
\* response given to every summarization call
PriorSummaryCalls ==
    {[resp |-> r, current_module_name |-> CatalogOrder[i],
      outputs |-> OutputsBefore(i, s)] :
        r \in SummaryResponses, i \in DOMAIN CatalogOrder,
        s \in {"Completed", "Error/Incomplete"}}

CallFrame ==
    UNCHANGED <<chunk_vars, pre_vars, call_fn, call_args, llm, session_vars,
                cwp_vars, observed_vars>>

InitCalls ==
    /\ \/ call_fn = "get_ai_planned_analysis_route" /\ call_args \in RouteCalls
       \/ call_fn = "plan_all_module_information_needs" /\ call_args \in NeedsCalls
       \/ /\ call_fn = "run_llm_module_analysis"
          /\ \E de \in SeqsUpTo(PreFetchItems, MaxPreFetchExtractions) :
                \E rs \in GroupResponses(GroupExtractions(<<>>, de), PreFetchReports) :
                   call_args = PreFetchCall(de, rs)
       \/ call_fn = "compress_selected_text_llm" /\ call_args \in CompressCalls
       \/ /\ call_fn = "update_overall_conclusion_and_log_contradictions"
          /\ call_args \in IntegrationCalls
       \/ /\ call_fn = "consolidate_risks_and_opportunities"
          /\ call_args \in ConsolidationCalls
       \/ call_fn = "select_relevant_chunks_llm" /\ call_args \in SelectCalls
       \/ call_fn = "generate_chunk_overview_llm" /\ call_args \in OverviewCalls
       \/ call_fn = "custom_duckduckgo_search" /\ call_args \in SearchCalls
       \/ call_fn = "run_llm_module_analysis: analysis" /\ call_args \in AnalysisCalls
       \/ /\ call_fn = "run_llm_module_analysis: to the analysis call"
          /\ \E sq \in {<<>>, <<"industry outlook">>},
                de \in SeqsUpTo(ModuleRunItems, MaxPreFetchExtractions),
                pr \in BOOLEAN, ar \in AnalysisResponses :
                \E sr \in (IF sq = <<>> THEN {NoCall} ELSE SearchResponses),
                   rs \in GroupResponses(GroupExtractions(<<>>, de), PreFetchReports) :
                   call_args = ModuleRunCall(sq, de, sr, rs, pr, ar)
       \/ call_fn = "get_prior_analyses_summary" /\ call_args \in PriorSummaryCalls
    /\ call_result = <<>>
    /\ call_pc = "call"
    /\ llm \in BOOLEAN
    /\ ChunkIdle
    /\ PreIdle
    /\ InitSession

CallRoute ==
    /\ call_pc = "call"
    /\ call_fn = "get_ai_planned_analysis_route"
    /\ call_result' = get_ai_planned_analysis_route(llm, call_args.resp, call_args.modules)
    /\ call_pc' = "returned"
    /\ CallFrame

CallNeeds ==
    /\ call_pc = "call"
    /\ call_fn = "plan_all_module_information_needs"
    /\ call_result' = plan_all_module_information_needs(llm, call_args.resp, call_args.modules)
    /\ call_pc' = "returned"
    /\ CallFrame

\* run_llm_module_analysis lines 61-105 for the first module of the catalog
CallPreFetch ==
    /\ call_pc = "call"
    /\ call_fn = "run_llm_module_analysis"
    /\ LET groups == GroupExtractions(<<>>, call_args.plan.document_extractions)
       IN call_result' =
              [i \in DOMAIN groups |->
                  ExtractGroup(llm, call_args.resps[i].sel, call_args.resps[i].cmp,
                               ALL_DEFINED_MODULES_LIST[1], groups[i],
                               call_args.all_reports)]
    /\ call_pc' = "returned"
    /\ CallFrame

CallCompress ==
    /\ call_pc = "call"
    /\ call_fn = "compress_selected_text_llm"
    /\ call_result' = CompressText(llm, call_args.resp, call_args.concatenated_text,
                                   call_args.overall_module_context,
                                   call_args.target_max_chars)
    /\ call_pc' = "returned"
    /\ CallFrame

CallIntegrate ==
    /\ call_pc = "call"
    /\ call_fn = "update_overall_conclusion_and_log_contradictions"
    /\ call_result' = update_overall_conclusion_and_log_contradictions(
                          llm, call_args.resp, call_args.module_name,
                          call_args.new_finding_text, call_args.new_finding_confidence,
                          call_args.cwp_insights)
    /\ call_pc' = "returned"
    /\ CallFrame

CallConsolidate ==
    /\ call_pc = "call"
    /\ call_fn = "consolidate_risks_and_opportunities"
    /\ call_result' = <<ConsolidateValues(llm, call_args.resp, call_args.insights)>>
    /\ call_pc' = "returned"
    /\ CallFrame

\* a second call with the same response, on what the first call left
CallConsolidateAgain ==
    /\ call_pc = "returned"
    /\ call_fn = "consolidate_risks_and_opportunities"
    /\ call_result' = Append(call_result,
                             ConsolidateValues(llm, call_args.resp,
                                 [key_risks |-> call_result[1].key_risks,
                                  key_opportunities |-> call_result[1].key_opportunities]))
    /\ call_pc' = "returned twice"
    /\ CallFrame

CallSelect ==
    /\ call_pc = "call"
    /\ call_fn = "select_relevant_chunks_llm"
    /\ call_result' = select_relevant_chunks_llm(llm, call_args.resp,
                                                 call_args.analysis_contexts,
                                                 call_args.chunk_overviews_with_ids)
    /\ call_pc' = "returned"
    /\ CallFrame

CallOverview ==
    /\ call_pc = "call"
    /\ call_fn = "generate_chunk_overview_llm"
    /\ call_result' = generate_chunk_overview_llm(llm, call_args.resp,
                                                  call_args.chunk_text, call_args.chunk_id)
    /\ call_pc' = "returned"
    /\ CallFrame

CallSearch ==
    /\ call_pc = "call"
    /\ call_fn = "custom_duckduckgo_search"
    /\ call_result' = custom_duckduckgo_search(call_args.query, call_args.resp)
    /\ call_pc' = "returned"
    /\ CallFrame

\* run_llm_module_analysis lines 146-186: the output the analysis block
\* writes and whether line 186 calls the integration
CallAnalysis ==
    /\ call_pc = "call"
    /\ call_fn = "run_llm_module_analysis: analysis"
    /\ LET output == AnalysisOutput(llm, call_args.resp, call_args.module_name)
       IN call_result' = [output |-> output,
                          integration_invoked |-> IntegrationInvoked(output.status)]
    /\ call_pc' = "returned"
    /\ CallFrame

\* run_llm_module_analysis lines 42-182 for the first module of the
\* catalog, which has no prerequisite: the pre-fetched search results and
\* document contents, the two entries of prompt_context they become (lines
\* 126-127), the call of the analysis LLM with the prompt assembled from it
\* (line 157; NoCall when line 144 or line 152 is reached instead) and the
\* output written at line 143, 182 or 202
CallModuleRun ==
    /\ call_pc = "call"
    /\ call_fn = "run_llm_module_analysis: to the analysis call"
    /\ LET m == ALL_DEFINED_MODULES_LIST[1]
           groups == GroupExtractions(<<>>, call_args.plan.document_extractions)
           search_results == PreFetchSearch(call_args.plan, call_args.search)
           document_contents ==
               [i \in DOMAIN groups |->
                   ExtractGroup(llm, call_args.resps[i].sel, call_args.resps[i].cmp,
                                m, groups[i], call_args.all_reports)]
       IN call_result' =
              [search_results |-> search_results,
               document_contents |-> document_contents,
               analysis_call |->
                   IF call_args.prompt_raises \/ ~llm THEN NoCall
                   ELSE [kind |-> "call",
                         prompt_context |->
                             [search_results |-> search_results,
                              document_contents |-> document_contents]],
               output |-> IF call_args.prompt_raises THEN PromptErrorOutput
                          ELSE AnalysisOutput(llm, call_args.resp, m)]
    /\ call_pc' = "returned"
    /\ CallFrame

CallPriorSummary ==
    /\ call_pc = "call"
    /\ call_fn = "get_prior_analyses_summary"
    /\ LET m == call_args.current_module_name
           resps == [d \in SummariesToGenerate(llm, m, call_args.outputs)
                        |-> call_args.resp]
       IN call_result' =
              [found |-> DependenciesFound(m, call_args.outputs),
               outputs |-> get_prior_analyses_summary(llm, resps, m, call_args.outputs)]
    /\ call_pc' = "returned"
    /\ CallFrame

NextCalls ==
    \/ CallRoute
    \/ CallNeeds
    \/ CallPreFetch
    \/ CallCompress
    \/ CallIntegrate
    \/ CallConsolidate
    \/ CallConsolidateAgain
    \/ CallSelect
    \/ CallOverview
    \/ CallSearch
    \/ CallAnalysis
    \/ CallModuleRun
    \/ CallPriorSummary

SpecCalls == InitCalls /\ [][NextCalls]_vars

----------------------------------------------------------------------------
(* Claims about preprocess_document_text (SpecPre) *)

\* the entry of processed_chunks for the chunk at position i, given the
\* outcome of that chunk's own worker call
IsEntryOf(e, chunk, future) ==
    /\ e.chunk_id = chunk.chunk_id
    /\ e.original_text = chunk.text
    /\ e.overview_text = IF future.raised
                         THEN Overview("overview generation failed", <<>>)
                         ELSE future.overview

\* C11: whatever the outcome of each chunk's overview call, a returned
\* preprocess_document_text holds exactly one entry for every chunk of
\* smart_chunk_document, with that chunk's id and text; the overview of an
\* entry is determined by the outcome of its own call alone, an error marker
\* when the call failed.
C11_FailureIsolation ==
    pre_pc = "done" =>
        LET cs == IF IsBlank(text) THEN <<>>
                  ELSE smart_chunk_document(text, doc_type, period_label,
                                            CHUNK_MAX_CHARS_FOR_OVERVIEW)
        IN /\ Len(processed_chunks) = Len(cs)
           /\ \A i \in DOMAIN cs :
                \E j \in DOMAIN processed_chunks :
                   /\ IsEntryOf(processed_chunks[j], cs[i], futures[i])
                   /\ \A k \in DOMAIN processed_chunks \ {j} :
                         processed_chunks[k].chunk_id # cs[i].chunk_id

\* a returned call of three or more chunks in which one overview call raised,
\* one returned an error text and one returned content
C11_Witness ==
    /\ pre_pc = "done"
    /\ Len(processed_chunks) >= 3
    /\ \E i, j, k \in DOMAIN futures :
          /\ futures[i].raised
          /\ futures[j].overview.s = "Error generating overview"
          /\ futures[k].overview.s = "overview"

\* C12: in every interleaving, at every moment, each entry of
\* processed_chunks carries the id and the text of one chunk, and an
\* overview generated from a chunk text is one generated from that same text.
C12_FanInByChunk ==
    \A j \in DOMAIN processed_chunks :
       \E i \in DOMAIN chunks_with_text :
          /\ processed_chunks[j].chunk_id = chunks_with_text[i].chunk_id
          /\ processed_chunks[j].original_text = chunks_with_text[i].text
          /\ processed_chunks[j].overview_text.s = "overview"
                => processed_chunks[j].overview_text.of = chunks_with_text[i].text

\* a returned call whose first entry is the last chunk, with a generated
\* overview: the completion order differs from the chunk order
C12_Witness ==
    /\ pre_pc = "done"
    /\ Len(chunks_with_text) >= 3
    /\ processed_chunks[1].chunk_id =
           chunks_with_text[Len(chunks_with_text)].chunk_id
    /\ processed_chunks[1].overview_text.s = "overview"
    /\ processed_chunks[2].overview_text.s = "overview"

\* C13: at most MAX_THREADS_FOR_OVERVIEW calls of
\* generate_chunk_overview_llm are running at any moment; no chunk's call is
\* made twice; and when preprocess_document_text has returned, every chunk
\* with text had exactly one call, which has finished and invoked the model
\* once when a model is available.
C13_BoundedFanOut ==
    /\ Cardinality(FuturesIn("running")) <= MAX_THREADS_FOR_OVERVIEW
    /\ \A i \in DOMAIN overview_calls :
          overview_calls[i].worker <= 1 /\ overview_calls[i].llm <= overview_calls[i].worker
    /\ pre_pc = "done" =>
          \A i \in DOMAIN chunks_with_text :
             ~IsBlank(chunks_with_text[i].text) =>
                /\ overview_calls[i].worker = 1
                /\ overview_calls[i].llm = IF llm THEN 1 ELSE 0
                /\ futures[i].state = "collected"

\* the pool is saturated: MAX_THREADS_FOR_OVERVIEW calls are running and a
\* further submitted call waits
C13_Witness ==
    /\ Cardinality(FuturesIn("running")) = MAX_THREADS_FOR_OVERVIEW
    /\ FuturesIn("queued") # {}
    /\ llm

----------------------------------------------------------------------------
(* Claims about the planners (SpecCalls) *)

RouteReturned == call_pc = "returned" /\ call_fn = "get_ai_planned_analysis_route"

NeedsReturned == call_pc = "returned" /\ call_fn = "plan_all_module_information_needs"

\* the module names the LLM gave: the items of planned_modules when the
\* response is a JSON object whose planned_modules is a list of strings
LLMNames(llm_ok, resp) ==
    IF /\ llm_ok
       /\ resp.kind = "json"
       /\ resp.planned_modules.py = "list"
       /\ \A i \in DOMAIN resp.planned_modules.items :
             resp.planned_modules.items[i] # NonStrItem
    THEN resp.planned_modules.items
    ELSE <<>>

FallbackRationales ==
    {"fallback: LLM unavailable", "fallback: planner error", "fallback: not JSON",
     "fallback: no valid module", "fallback: bad format"}

\* C14: for every LLM outcome get_ai_planned_analysis_route returns a
\* non-empty list of names of the catalog: the names the LLM gave that are in
\* the catalog, in the LLM's order, when there is one, and otherwise the
\* whole catalog with a rationale that says it is the fallback.
C14_RoutePostcondition ==
    RouteReturned =>
        LET catalog == call_args.modules
            valid == SelectSeq(LLMNames(llm, call_args.resp),
                               LAMBDA m : m \in Range(catalog))
        IN /\ call_result.planned_modules # <<>>
           /\ Range(call_result.planned_modules) \subseteq Range(catalog)
           /\ IF valid # <<>>
              THEN /\ call_result.planned_modules = valid
                   /\ call_result.planning_reasoning \notin FallbackRationales
              ELSE /\ call_result.planned_modules = catalog
                   /\ call_result.planning_reasoning \in FallbackRationales

\* a JSON value read as a list: its items, none when it is not a list
GivenList(v) == IF v.py = "list" THEN v.items ELSE <<>>

\* what the LLM answered for module m, when it answered with an object
Answered(m) ==
    /\ llm
    /\ call_args.resp.kind = "json"
    /\ m \in DOMAIN call_args.resp.plans
    /\ call_args.resp.plans[m].py = "dict"

\* an object with the three required fields, all strings
RequiredExtraction(item) ==
    /\ item.py = "dict"
    /\ item.document_type \notin {"<missing>", NonStrItem}
    /\ item.period_label \notin {"<missing>", NonStrItem}
    /\ item.analysis_context \notin {"<missing>", NonStrItem}

\* both lists of a module's answer are lists and nothing in them is dropped
WellFormedPlan(p) ==
    /\ p.search_queries.py = "list"
    /\ \A i \in DOMAIN p.search_queries.items : p.search_queries.items[i] # NonStrItem
    /\ p.document_extractions.py = "list"
    /\ \A i \in DOMAIN p.document_extractions.items :
          RequiredExtraction(p.document_extractions.items[i])

\* C15: for a non-empty list of requested modules and every LLM outcome the
\* keys of the returned mapping are exactly the requested modules; a module
\* the response does not answer with an object maps to the empty default,
\* and so does every module when the LLM is unavailable, raises or answers
\* with something that is not a JSON object; a well-formed answer for a
\* module is returned as given.
C15_PartialDefaulting ==
    (NeedsReturned /\ call_args.modules # <<>>) =>
        /\ DOMAIN call_result = Range(call_args.modules)
        /\ \A m \in Range(call_args.modules) :
              IF Answered(m)
              THEN WellFormedPlan(call_args.resp.plans[m]) =>
                      call_result[m] =
                          [search_queries |-> call_args.resp.plans[m].search_queries.items,
                           document_extractions |->
                               call_args.resp.plans[m].document_extractions.items]
              ELSE call_result[m] = EmptyNeeds

\* two modules were requested; the response answers one with a well-formed
\* plan that has extractions and does not answer the other with an object
C15_Witness ==
    /\ NeedsReturned
    /\ \E m1, m2 \in Range(call_args.modules) :
          /\ m1 # m2
          /\ Answered(m1)
          /\ WellFormedPlan(call_args.resp.plans[m1])
          /\ call_result[m1].document_extractions # <<>>
          /\ ~Answered(m2)
          /\ call_args.resp.kind = "json"
          /\ call_result[m2] = EmptyNeeds

\* C16 as stated: every search_queries value holds only strings and every
\* document_extractions entry is an object with exactly the three required
\* fields, all strings.
C16_ExactlyThreeFields ==
    NeedsReturned =>
        \A m \in DOMAIN call_result :
           /\ \A i \in DOMAIN call_result[m].search_queries :
                 call_result[m].search_queries[i] # NonStrItem
           /\ \A i \in DOMAIN call_result[m].document_extractions :
                 /\ RequiredExtraction(call_result[m].document_extractions[i])
                 /\ DOMAIN call_result[m].document_extractions[i] =
                        {"py", "document_type", "period_label", "analysis_context"}

\* C16: in the returned mapping every search_queries value is the answered
\* list without its non-string entries (empty when the answer is not a
\* list), and every document_extractions value is the answered list without
\* the entries that are not objects holding the three required fields as
\* strings; the entries that remain are unchanged and in order, further
\* fields included.
C16_FieldValidation ==
    NeedsReturned =>
        \A m \in DOMAIN call_result :
           LET sq == IF Answered(m)
                     THEN GivenList(call_args.resp.plans[m].search_queries) ELSE <<>>
               de == IF Answered(m)
                     THEN GivenList(call_args.resp.plans[m].document_extractions) ELSE <<>>
           IN /\ call_result[m].search_queries = SelectSeq(sq, LAMBDA q : q # NonStrItem)
              /\ call_result[m].document_extractions = SelectSeq(de, RequiredExtraction)

\* a returned plan in which a non-string query was dropped, an extraction
\* was dropped, and an extraction with a fourth field was kept
C16_Witness ==
    /\ NeedsReturned
    /\ \E m \in DOMAIN call_result :
          /\ Answered(m)
          /\ call_result[m].search_queries = <<"query 1", "query 2">>
          /\ Len(call_result[m].document_extractions) = 1
          /\ Len(GivenList(call_args.resp.plans[m].document_extractions)) = 2
          /\ "note" \in DOMAIN call_result[m].document_extractions[1]

----------------------------------------------------------------------------
(* Claims about the document pre-fetch (SpecCalls) *)

PreFetchReturned == call_pc = "returned" /\ call_fn = "run_llm_module_analysis"

\* the (document_type, period_label) pairs of the planned extractions
PlannedPairs == {<<e.document_type, e.period_label>> :
                    e \in Range(call_args.plan.document_extractions)}

\* the analysis contexts planned for a pair, in plan order
ContextsOf(pair) ==
    LET of == SelectSeq(call_args.plan.document_extractions,
                        LAMBDA e : <<e.document_type, e.period_label>> = pair)
    IN [k \in DOMAIN of |-> of[k].analysis_context]

\* the entries of the result that were made for a pair
EntriesOf(pair) ==
    {i \in DOMAIN call_result :
        <<call_result[i].document_type, call_result[i].period_label>> = pair}

\* C18: the planned extractions are grouped by (document_type,
\* period_label): every distinct pair has one entry in the result; a pair for
\* which chunks are found has exactly one selector call, made with all the
\* contexts planned for the pair, and at most one compressor call, made with
\* the same contexts; so the number of selector calls is the number of
\* distinct pairs with chunks, whatever the number of planned extractions.
C18_OneSelectorCallPerPair ==
    PreFetchReturned =>
        /\ \A pair \in PlannedPairs :
              /\ Cardinality(EntriesOf(pair)) = 1
              /\ \A i \in EntriesOf(pair) :
                    /\ call_result[i].analysis_contexts = ContextsOf(pair)
                    /\ call_result[i].selector_call # NoCall
                          <=> ChunksFor(call_args.all_reports, pair[1], pair[2]) # <<>>
                    /\ call_result[i].selector_call # NoCall =>
                          call_result[i].selector_call.analysis_contexts = ContextsOf(pair)
                    /\ call_result[i].compressor_call # NoCall =>
                          /\ call_result[i].selector_call # NoCall
                          /\ call_result[i].compressor_call.overall_module_context.contexts
                                = ContextsOf(pair)
        /\ Cardinality({i \in DOMAIN call_result : call_result[i].selector_call # NoCall})
              = Cardinality({pair \in PlannedPairs :
                                ChunksFor(call_args.all_reports, pair[1], pair[2]) # <<>>})

\* two planned extractions for the same document with different contexts:
\* one selector call, and a compressor call that carries both contexts
C18_Witness ==
    /\ PreFetchReturned
    /\ Len(call_args.plan.document_extractions) = 2
    /\ Cardinality({i \in DOMAIN call_result : call_result[i].selector_call # NoCall}) = 1
    /\ \E i \in DOMAIN call_result :
          /\ call_result[i].compressor_call # NoCall
          /\ Len(call_result[i].compressor_call.overall_module_context.contexts) = 2

\* the pair names a document that was uploaded and preprocessed: the
\* footnotes or the MD&A of a report with that period label, with chunks
ResolvesToDocument(pair) ==
    \E r \in Range(call_args.all_reports) :
       /\ r.period_label = pair[2]
       /\ \/ pair[1] = "footnotes" /\ r.footnotes_processed_chunks # <<>>
          \/ pair[1] = "mda" /\ r.mda_processed_chunks # <<>>

\* C19: an extraction whose pair does not resolve to a preprocessed document
\* (a period that was not uploaded, a document type other than footnotes and
\* mda, a document without chunks) makes no selector call and no compressor
\* call and contributes a notice only, while the pairs that resolve are
\* still handed to the selector.
C19_UnresolvableYieldsNothing ==
    PreFetchReturned =>
        \A pair \in PlannedPairs :
           \A i \in EntriesOf(pair) :
              IF ResolvesToDocument(pair)
              THEN call_result[i].selector_call # NoCall
              ELSE /\ call_result[i].selector_call = NoCall
                   /\ call_result[i].compressor_call = NoCall
                   /\ call_result[i].kind = "no preprocessed chunks"
                   /\ call_result[i].content = PyNone

\* the ids the selector LLM returned for the group at position i
ReturnedIds(i) ==
    IF /\ call_args.resps[i].sel.kind = "json"
       /\ call_args.resps[i].sel.relevant_chunk_ids.py = "list"
    THEN call_args.resps[i].sel.relevant_chunk_ids.items
    ELSE <<>>

\* the original texts of the chunks of a document named by a list of ids, in
\* the order of the list, ids that name no chunk of the document left out
TextsOfIds(ids, doc_chunks) ==
    LET known == SelectSeq(ids, LAMBDA id : \E c \in Range(doc_chunks) : c.chunk_id = id)
    IN [k \in DOMAIN known |->
           (CHOOSE c \in Range(doc_chunks) : c.chunk_id = known[k]).original_text]

\* C20: for every group that reaches the compressor, the text handed to it
\* is the concatenation of the original texts of the chunks of the group's
\* document whose ids the selector returned, ids of no chunk of the document
\* being ignored; the entry assembled for the group holds what the
\* compressor returned for that text, and no original text of a chunk that
\* was not selected.
C20_RetrievalContent ==
    PreFetchReturned =>
        \A i \in DOMAIN call_result :
           call_result[i].compressor_call # NoCall =>
              LET doc_chunks == ChunksFor(call_args.all_reports,
                                          call_result[i].document_type,
                                          call_result[i].period_label)
                  selected == TextsOfIds(ReturnedIds(i), doc_chunks)
                  unselected == {c.original_text : c \in Range(doc_chunks)}
                                   \ Range(selected)
              IN /\ call_result[i].compressor_call.concatenated_text = selected
                 /\ call_result[i].kind = "extracted"
                 /\ call_result[i].content.s \in {"compressed", "compression error"}
                 /\ call_result[i].content.of = selected
                 /\ Range(call_result[i].content.of) \cap unselected = {}

\* two groups reached the compressor: for one the selector returned an id
\* of no chunk among two ids of chunks, for the other the id of one chunk
\* of two
C20_Witness ==
    /\ PreFetchReturned
    /\ \E i, j \in DOMAIN call_result :
          /\ call_result[i].compressor_call # NoCall
          /\ Len(ReturnedIds(i)) = 3
          /\ Len(call_result[i].compressor_call.concatenated_text) = 2
          /\ call_result[j].compressor_call # NoCall
          /\ call_result[j].content.s = "compressed"
          /\ Len(ReturnedIds(j)) = 1
          /\ Len(ChunksFor(call_args.all_reports, call_result[j].document_type,
                           call_result[j].period_label)) = 2

----------------------------------------------------------------------------
(* Claims about the run *)

CompletedModules ==
    {m \in DOMAIN analytical_module_outputs :
        analytical_module_outputs[m].status = "Completed"}

\* a step of a run that is under way: a module was executed
RunStep == analysis_started /\ analysis_started'

IsPrefix(a, b) == Len(a) <= Len(b) /\ SubSeq(b, 1, Len(a)) = a

\* C1 (as the specification states it): whenever the integration ends in one
\* of its exception handlers, the overall conclusion after the call equals
\* the one before the call.
C1_FailSafe ==
    last_integration.exception => last_integration.after = last_integration.before

\* C2 (as the specification states it): the number of replacements of the
\* overall conclusion equals the number of completed modules, and the
\* contradiction log is no longer than that.
C2_ExactlyNReplacements ==
    /\ revisions = Cardinality(CompletedModules)
    /\ Len(contradiction_logbook) <= Cardinality(CompletedModules)

\* C2 (amended): after N modules have completed the overall conclusion has
\* been replaced at most N times, at most once per executed module and only
\* by the integration of a module whose status is Completed and whose
\* integration response parsed as a JSON object; the contradiction log is no
\* longer than the number of replacements and every step of the run only
\* appends to it.
C2_AtMostNReplacements ==
    [][ /\ revisions' <= Cardinality(CompletedModules')
        /\ Len(contradiction_logbook') <= revisions'
        /\ RunStep =>
              /\ IsPrefix(contradiction_logbook, contradiction_logbook')
              /\ Len(contradiction_logbook') <= Len(contradiction_logbook) + 1
              /\ revisions' \in {revisions, revisions + 1}
              /\ revisions' = revisions + 1 =>
                    /\ last_integration'.wrote
                    /\ last_integration'.module = last_exec'.module
                    /\ last_integration'.module \in CompletedModules'
                    /\ last_integration'.module \notin DOMAIN analytical_module_outputs
              /\ revisions' = revisions =>
                    current_overall_financial_conclusion'
                        = current_overall_financial_conclusion
      ]_vars

C2_Witness ==
    /\ Cardinality(CompletedModules) = 3
    /\ revisions = 2
    /\ Len(contradiction_logbook) = 2

\* the positions of the trace where a module begins
BeginPositions == {i \in DOMAIN trace : trace[i].ev = "begin"}

\* the positions of the trace that belong to the execution begun at i:
\* those from i up to the next begin
ExecutionOf(i) ==
    LET later == {k \in BeginPositions : k > i}
    IN i..((IF later = {} THEN Len(trace) + 1 ELSE Min(later)) - 1)

EventsOf(i, ev) == {j \in ExecutionOf(i) : trace[j].ev = ev}

\* every event of an execution is about its module, the output is written
\* once, and an integration comes after the output
WellSequenced(i) ==
    /\ \A j \in ExecutionOf(i) :
          trace[j].ev \in {"begin", "output", "integrate"}
              => trace[j].module = trace[i].module
    /\ Cardinality(EventsOf(i, "output")) = 1
    /\ \A j \in EventsOf(i, "integrate") : \E o \in EventsOf(i, "output") : o < j

\* C3 (as the specification states it): every executed module is integrated
\* exactly once, after its output is written and before the next module
\* begins.
C3_ExactlyOneIntegration ==
    \A i \in BeginPositions :
        WellSequenced(i) /\ Cardinality(EventsOf(i, "integrate")) = 1

\* C3 (amended): the integration is invoked exactly once for every executed
\* module whose output status is Completed, after the output is written and
\* before the next module begins, and it is not invoked at all for a module
\* whose status is Error or Error/Incomplete; integrations are never batched.
C3_OneIntegrationPerCompleted ==
    /\ trace # <<>> => trace[1].ev = "begin"
    /\ \A i \in BeginPositions :
          /\ WellSequenced(i)
          /\ trace[i].module \in DOMAIN analytical_module_outputs
          /\ Cardinality(EventsOf(i, "integrate")) =
                 IF trace[i].module \in CompletedModules THEN 1 ELSE 0

\* three modules were begun: one was recorded Error/Incomplete and not
\* integrated, and the modules before and after it were integrated
C3_Witness ==
    /\ Cardinality(BeginPositions) = 3
    /\ Cardinality(CompletedModules) = 2
    /\ \E i \in BeginPositions :
          /\ analytical_module_outputs[trace[i].module].status = "Error/Incomplete"
          /\ \E j \in BeginPositions : j < i /\ trace[j].module \in CompletedModules
          /\ \E j \in BeginPositions : j > i /\ trace[j].module \in CompletedModules

\* the module has a non-empty abbreviated summary
Summarized(outputs, m) ==
    m \in DOMAIN outputs /\ Truthy(outputs[m].abbreviated_summary)

\* C4 (as the specification states it): at most one summarization call is
\* ever issued for a module, failed and empty summarizations included.
C4_AtMostOneCall ==
    \A m \in DOMAIN sum_calls : sum_calls[m] <= 1

\* C4 (amended): a summarization call is issued for a module only while the
\* module is Completed and its abbreviated summary is unset or empty: a
\* summarization that raised or returned empty content caches nothing, so the
\* next lookup calls the LLM again; once the abbreviated summary is non-empty
\* no further call is issued for the module and the stored value does not
\* change.
C4_NoCallOnceCached ==
    [][ RunStep =>
          \A m \in DOMAIN sum_calls :
              /\ sum_calls'[m] \in {sum_calls[m], sum_calls[m] + 1}
              /\ sum_calls'[m] > sum_calls[m] => m \in CompletedModules'
              /\ Summarized(analytical_module_outputs', m) => sum_calls'[m] >= 1
              /\ Summarized(analytical_module_outputs, m) =>
                    /\ sum_calls'[m] = sum_calls[m]
                    /\ analytical_module_outputs'[m].abbreviated_summary
                           = analytical_module_outputs[m].abbreviated_summary
      ]_vars

\* the summary stored when "1.1" completed is used by "1.2" without a call
C4_Witness ==
    /\ last_exec.module = "1.2"
    /\ Summarized(analytical_module_outputs, "1.1")
    /\ sum_calls["1.1"] = 1

IsBegin(event) == event.ev = "begin"

\* the modules executed so far, in execution order
Executed ==
    LET begins == SelectSeq(trace, IsBegin)
    IN [i \in DOMAIN begins |-> begins[i].module]

\* C5 (as the specification states it): with AI planning enabled the modules
\* to execute are the list the route planner returned and the planned total
\* is its length; with AI planning disabled they are the catalog; the
\* modules executed so far are the first ones of that list, in its order.
C5_RouteIsExecuted ==
    analysis_started =>
        LET route == IF ai_planner_enabled
                     THEN ai_planned_modules.planned_modules
                     ELSE ALL_DEFINED_MODULES_LIST
        IN /\ ModulesToExecuteOrdered = route
           /\ TotalModulesToRunCurrent = Len(route)
           /\ CurrentTotalModulesToRun(ai_planner_enabled, ai_planned_modules) = Len(route)
           /\ IsPrefix(Executed, route)
           /\ Len(Executed) < Len(route) => CanRunNextModule

\* the places named by the claim where an exception is raised
ClaimedSites == {"search", "selector", "compressor", "prompt", "analysis"}

\* the module after m in the catalog, "" after the last
Successor(m) ==
    LET i == CHOOSE k \in DOMAIN ALL_DEFINED_MODULES_LIST :
                 ALL_DEFINED_MODULES_LIST[k] = m
    IN IF i = Len(ALL_DEFINED_MODULES_LIST) THEN ""
       ELSE ALL_DEFINED_MODULES_LIST[i + 1]

\* C6 (as the specification states it): if anything raised during the
\* pre-fetching, the prompt assembly or the analysis, nothing propagates and
\* the module is recorded with status Error and the exception text.
C6_RaisedIsError ==
    last_exec.raised \cap ClaimedSites # {} =>
        /\ ~last_exec.propagated
        /\ last_exec.module \in DOMAIN analytical_module_outputs
        /\ analytical_module_outputs[last_exec.module].status = "Error"

\* C6 (amended): no exception raised by the pre-fetching, the prompt
\* assembly, the analysis call, its post-processing, the integration, a
\* summarization or the consolidation propagates out of a module's
\* execution; the one exception that does is raised by the report generator,
\* which runs in no try block after the last module's output is recorded.
\* An exception of the search tool, the chunk selector or the compressor is
\* absorbed by the tool (its text stands in for the result) and does not
\* decide the status.  An exception of the prompt assembly, of the analysis
\* call or of its post-processing records the module with status Error and
\* the exception text in its summary, and only these do.  The pipeline then
\* continues with the next module of the catalog.
C6_ErrorIsolation ==
    last_exec.module # "" =>
        LET m == last_exec.module
            output == analytical_module_outputs[m]
        IN /\ last_exec.propagated <=> "report" \in last_exec.raised
           /\ "report" \in last_exec.raised => Successor(m) = "" /\ ~AnalysisInProgress
           /\ m \in DOMAIN analytical_module_outputs
           /\ output.status = "Error" <=> last_exec.raised \cap {"prompt", "analysis"} # {}
           /\ output.status = "Error" =>
                 /\ output.text_summary.s \in {"prompt generation error", "analysis failed"}
                 /\ output.text_summary.s = "prompt generation error"
                        <=> "prompt" \in last_exec.raised
                 /\ output.text_summary.exception # ""
           /\ Successor(m) # "" => CanRunNextModule /\ NextModuleToRun = Successor(m)

\* a search that raised and an analysis call that raised, in one execution
C6_Witness ==
    /\ last_exec.module = "1.1"
    /\ {"search", "analysis"} \subseteq last_exec.raised
    /\ analytical_module_outputs["1.1"].status = "Error"
    /\ NextModuleToRun = "1.2"

\* C7 (as the specification states it): the consolidation is invoked once
\* in a run, exactly when the number of module outputs reaches the planned
\* total, whatever the status of the last module.
C7_ConsolidatedOnceAtTotal ==
    LET consolidations == {i \in DOMAIN trace : trace[i].ev = "consolidate"}
        reached == analysis_started /\ ~AnalysisInProgress
    IN /\ Cardinality(consolidations) <= 1
       /\ consolidations # {} => reached
       /\ reached => Cardinality(consolidations) = 1

\* C17: while an analysis is started plan_all_module_information_needs has
\* been invoked exactly once, the invocation comes before any module has
\* begun or has an output, and no step of a started analysis replaces or
\* modifies the stored information_needs_by_module; only the start and the
\* reset write it.
C17_NeedsPlannedOnce ==
    /\ [](analysis_started => needs_planning_calls = 1)
    /\ [][ /\ needs_planning_calls' > needs_planning_calls
              => trace' = <<>> /\ analytical_module_outputs' = EmptyDict
           /\ (analysis_started /\ analysis_started')
              => /\ information_needs_by_module' = information_needs_by_module
                 /\ needs_planning_calls' = needs_planning_calls ]_vars

\* every module of a run has executed, the needs were planned once, and the
\* stored mapping holds a plan that is not the empty default
C17_Witness ==
    /\ analysis_started
    /\ ~AnalysisInProgress
    /\ Cardinality(DOMAIN analytical_module_outputs) >= 2
    /\ needs_planning_calls = 1
    /\ \E m \in DOMAIN information_needs_by_module :
          information_needs_by_module[m] # EmptyNeeds


----------------------------------------------------------------------------
(* Claims about the LLM services (SpecCalls) *)

CompressReturned ==
    call_fn = "compress_selected_text_llm" /\ call_pc = "returned"

NothingToCompress == [py |-> "str", s |-> "nothing to compress"]

\* C21: compress_selected_text_llm gives the LLM at most 4 x target_max_chars
\* characters of the input text: a longer input is cut to its first
\* 4 x target_max_chars characters and the target stated in the prompt is
\* the one given; for an empty or whitespace-only input no LLM call is made
\* and the fixed nothing-to-compress sentence is returned.
C21_CompressorInputGuard ==
    CompressReturned =>
        LET input == call_args.concatenated_text
            target == call_args.target_max_chars
            prompt == call_result.prompt
        IN /\ IsBlank(input) =>
                  prompt = NoCall /\ call_result.result = NothingToCompress
           /\ prompt # NoCall =>
                  /\ Len(prompt.text_to_compress) <= 4 * target
                  /\ prompt.text_to_compress =
                         (IF Len(input) > 4 * target
                          THEN SubSeq(input, 1, 4 * target) ELSE input)
                  /\ prompt.target_max_chars = target

\* a call with a model whose input is longer than four times a positive
\* target: the LLM is given the first 4 x target characters
C21_Witness ==
    /\ CompressReturned
    /\ call_args.target_max_chars > 0
    /\ Len(call_args.concatenated_text) > 4 * call_args.target_max_chars
    /\ call_result.prompt # NoCall
    /\ Len(call_result.prompt.text_to_compress) = 4 * call_args.target_max_chars


IntegrateReturned ==
    call_fn = "update_overall_conclusion_and_log_contradictions" /\ call_pc = "returned"

\* the response says a contradiction was found and describes it otherwise
\* than by one of the phrases that say there is none
ReportsContradiction(resp) ==
    resp.kind = "json" /\ resp.found = "true" /\ resp.description # "none"

ConsolidateReturned ==
    /\ call_fn = "consolidate_risks_and_opportunities"
    /\ call_pc \in {"returned", "returned twice"}

\* the array the response gives for a key, [] for a missing key
ResponseArray(field, item) ==
    CASE field = "given" -> PyList(<<item>>)
      [] field = "not objects" -> PyList(<<NotADict>>)
      [] field = "missing" -> PyList(<<>>)
      [] OTHER -> PyNone

SameLists(a, b) ==
    a.key_risks = b.key_risks /\ a.key_opportunities = b.key_opportunities

\* what the claim says of one call: a call that fails (no LLM, an exception,
\* no JSON) leaves both lists as they were, every other call makes them the
\* arrays of the response
ReplacedOrUnchanged(before, after) ==
    IF ~after.called \/ after.exception
    THEN SameLists(after, before)
    ELSE /\ after.key_risks = ResponseArray(call_args.resp.key_risks, "R001")
         /\ after.key_opportunities =
                ResponseArray(call_args.resp.key_opportunities, "O001")

\* C23: every successful consolidation sets key_risks and key_opportunities
\* to exactly the arrays of the response, a missing key giving the empty
\* list, whatever they held before, so that a second call with the same
\* response leaves what the first one left; a failed consolidation (LLM
\* unavailable, exception, response that is not JSON) leaves both lists
\* unchanged.
C23_ReplacingReduction ==
    ConsolidateReturned =>
        /\ ReplacedOrUnchanged(call_args.insights, call_result[1])
        /\ call_pc = "returned twice" =>
              /\ ReplacedOrUnchanged(call_result[1], call_result[2])
              /\ SameLists(call_result[2], call_result[1])



SelectReturned == call_fn = "select_relevant_chunks_llm" /\ call_pc = "returned"

OverviewReturned == call_fn = "generate_chunk_overview_llm" /\ call_pc = "returned"

SearchReturned == call_fn = "custom_duckduckgo_search" /\ call_pc = "returned"

\* a result of the compressor that tells an unavailable LLM apart from an
\* available one with nothing to compress
SignalsUnavailability(result) == result # NothingToCompress

\* what the other LLM-dependent operations return or leave when the LLM
\* client could not be constructed, whatever the LLM would have answered
UnavailableDefaults ==
    /\ OverviewReturned =>
          call_result = [raised |-> FALSE,
                         overview |-> Overview("Error: LLM not available", <<>>)]
    /\ SelectReturned => call_result = <<>>
    /\ CompressReturned => call_result.prompt = NoCall
    /\ RouteReturned =>
          call_result = RoutePlan(ALL_DEFINED_MODULES_LIST, "fallback: LLM unavailable")
    /\ NeedsReturned =>
          /\ DOMAIN call_result = Range(call_args.modules)
          /\ \A m \in DOMAIN call_result : call_result[m] = EmptyNeeds
    /\ IntegrateReturned =>
          /\ ~call_result.called /\ ~call_result.wrote /\ ~call_result.exception
          /\ call_result.conclusion = call_args.cwp_insights.conclusion
          /\ call_result.logbook = call_args.cwp_insights.logbook
    /\ ConsolidateReturned =>
          \A i \in DOMAIN call_result :
             /\ ~call_result[i].called /\ ~call_result[i].exception
             /\ SameLists(call_result[i], call_args.insights)

\* C24: when the LLM client could not be constructed, every LLM-dependent
\* operation makes no LLM call, raises nothing and returns a clear
\* unavailable or default result: the overview is the error marker, the
\* chunk selection is the empty list, the compression is a string that
\* signals unavailability (told apart from the result for a blank text),
\* the route is the full catalog with the fallback rationale, the needs plan is the empty default for every module, and
\* integration and consolidation leave the shared state unchanged.
C24_UnavailableResults ==
    ~llm =>
        /\ UnavailableDefaults
        /\ CompressReturned /\ ~IsBlank(call_args.concatenated_text) =>
              SignalsUnavailability(call_result.result)

\* C24 without the compressor's result: it holds of every other operation
C24_OtherOperations == ~llm => UnavailableDefaults

\* the compressor is called without an LLM on a text that is not blank
C24_CompressorCase ==
    /\ ~llm
    /\ CompressReturned
    /\ ~IsBlank(call_args.concatenated_text)



\* the LLM raised, or its response is empty or malformed: no JSON, JSON that
\* is no object, or (for the selector) chunk ids that are no list of strings
FailedResponse(resp) ==
    \/ resp.kind \in {"raise", "empty", "nonjson", "json_nondict"}
    \/ /\ resp.kind = "json"
       /\ "relevant_chunk_ids" \in DOMAIN resp
       /\ \/ resp.relevant_chunk_ids.py # "list"
          \/ \E i \in DOMAIN resp.relevant_chunk_ids.items :
                ~IsStrItem(resp.relevant_chunk_ids.items[i])

CompressionError(result, concatenated_text) ==
    result.s = "compression error" /\ result.snippet = ErrorSnippet(concatenated_text)

OverviewError(result) ==
    ~result.raised /\ result.overview = Overview("Error generating overview", <<>>)

\* C25 (as the specification states it): when the LLM raises or returns an
\* empty or malformed response, the selector returns the empty list, the
\* compressor returns an error string with a snippet of the text and the
\* overview generator returns an error marker; a failing search returns an
\* error description; no exception crosses the boundary of any of them.
C25_FailuresBecomeSentinels ==
    /\ llm /\ SelectReturned /\ FailedResponse(call_args.resp) => call_result = <<>>
    /\ llm /\ CompressReturned /\ call_result.prompt # NoCall
           /\ FailedResponse(call_args.resp) =>
          CompressionError(call_result.result, call_args.concatenated_text)
    /\ llm /\ OverviewReturned /\ FailedResponse(call_args.resp) =>
          OverviewError(call_result)
    /\ SearchReturned /\ call_args.resp.kind = "raise" =>
          call_result = [py |-> "str", s |-> "Error performing search",
                         query |-> call_args.query]

\* a whole execution of a module, up to its analysis call, has returned
ModuleRunReturned ==
    call_pc = "returned" /\ call_fn = "run_llm_module_analysis: to the analysis call"

\* the entries the document pre-fetch made, given what the selector and the
\* compressor did for each group: one entry for every planned pair, no
\* relevant chunk where the selector failed, the error string as the
\* content where the compressor raised
SentinelEntries(entries, resps) ==
    /\ Len(entries) = Cardinality(PlannedPairs)
    /\ \A i \in DOMAIN entries :
          /\ /\ entries[i].selector_call # NoCall
             /\ FailedResponse(resps[i].sel)
             => entries[i].kind = "no relevant chunk"
          /\ /\ entries[i].compressor_call # NoCall
             /\ resps[i].cmp.kind = "raise"
             => /\ entries[i].kind = "extracted"
                /\ entries[i].content.s = "compression error"

\* C25 (amended): an LLM that raises makes the selector return the empty
\* list, the compressor an error string with the first 500 characters of
\* the text and the overview generator an error marker; a response that is
\* empty or malformed makes the selector return the empty list, while the
\* compressor and the overview generator return the content as it is, the
\* empty string for an empty content; a search that raises returns an error
\* description.  No exception of the LLM or of the search tool crosses the
\* boundary of any of the four: the overview generator raises exactly when
\* its own logging raises.  The pre-fetch of the calling module makes its
\* entry for every search query and every group of extractions (the error
\* description where the search raised, no relevant chunk where the
\* selector failed, the error string as the content where the compressor
\* raised) and puts them into the prompt context; whatever failed in the
\* pre-fetch, the module makes its main analysis call with that context
\* exactly when the prompt assembly does not raise, and ends with the
\* prompt error as its output when it does.
C25_ExternalFailureSentinels ==
    /\ llm /\ SelectReturned /\ FailedResponse(call_args.resp) => call_result = <<>>
    /\ llm /\ CompressReturned /\ call_result.prompt # NoCall =>
          /\ call_args.resp.kind = "raise" =>
                CompressionError(call_result.result, call_args.concatenated_text)
          /\ call_args.resp.kind = "empty" => call_result.result = Str("")
    /\ llm /\ OverviewReturned =>
          /\ call_result.raised <=> call_args.resp.kind = "log raises"
          /\ call_args.resp.kind = "raise" => OverviewError(call_result)
          /\ call_args.resp.kind = "empty" => call_result.overview = Overview("", <<>>)
    /\ SearchReturned /\ call_args.resp.kind = "raise" =>
          call_result = [py |-> "str", s |-> "Error performing search",
                         query |-> call_args.query]
    /\ llm /\ PreFetchReturned => SentinelEntries(call_result, call_args.resps)
    /\ llm /\ ModuleRunReturned =>
          /\ Len(call_result.search_results) = Len(call_args.plan.search_queries)
          /\ \A i \in DOMAIN call_result.search_results :
                call_result.search_results[i].s = "Error performing search"
                    <=> call_args.search.kind = "raise"
          /\ SentinelEntries(call_result.document_contents, call_args.resps)
          /\ call_result.analysis_call # NoCall <=> ~call_args.prompt_raises
          /\ ~call_args.prompt_raises =>
                call_result.analysis_call.prompt_context =
                    [search_results |-> call_result.search_results,
                     document_contents |-> call_result.document_contents]
          /\ call_args.prompt_raises => call_result.output = PromptErrorOutput

\* an execution in which the search raised, the selector raised for one
\* document and the compressor raised for another: the error description
\* and both entries are in the context of the analysis call that was made
C25_Witness ==
    /\ llm
    /\ ModuleRunReturned
    /\ call_args.search.kind = "raise"
    /\ call_result.analysis_call # NoCall
    /\ \E q \in DOMAIN call_result.analysis_call.prompt_context.search_results :
          call_result.analysis_call.prompt_context.search_results[q].s
              = "Error performing search"
    /\ LET entries == call_result.analysis_call.prompt_context.document_contents
       IN \E i, j \in DOMAIN entries :
             /\ entries[i].selector_call # NoCall
             /\ call_args.resps[i].sel.kind = "raise"
             /\ entries[i].kind = "no relevant chunk"
             /\ entries[j].compressor_call # NoCall
             /\ call_args.resps[j].cmp.kind = "raise"
             /\ entries[j].content.s = "compression error"



----------------------------------------------------------------------------
(* Claims about the order of the run (Spec) *)

\* C26: modules are executed one at a time (the events between two begins
\* are those of one module); the modules begun so far (Executed) are the first modules
\* of the ordered execution list, each begun once, and they are exactly the
\* modules that have an output, Completed or Error; so the module that is
\* started next is the first module of the list without an output, and a
\* script run that re-enters the loop continues there.
C26_SequentialResumable ==
    /\ \A i \in BeginPositions :
          \A j \in ExecutionOf(i) :
             trace[j].ev \in {"begin", "output", "integrate"}
                 => trace[j].module = trace[i].module
    /\ IsPrefix(Executed, ModulesToExecuteOrdered)
    /\ Cardinality(Range(Executed)) = Len(Executed)
    /\ DOMAIN analytical_module_outputs = Range(Executed)
    /\ CanRunNextModule =>
          /\ Len(Executed) < Len(ModulesToExecuteOrdered)
          /\ NextModuleToRun = ModulesToExecuteOrdered[Len(Executed) + 1]

\* two modules were executed, the first recorded with status Error, and the
\* run continues at the third
C26_Witness ==
    /\ Executed = <<"1.1", "1.2">>
    /\ analytical_module_outputs["1.1"].status = "Error"
    /\ analytical_module_outputs["1.2"].status = "Completed"
    /\ CanRunNextModule
    /\ NextModuleToRun = "1.4"



\* the route of the run: the list the planner returned, or the catalog
PlannedRoute ==
    IF ai_planner_enabled /\ Truthy(ai_planned_modules)
    THEN ai_planned_modules.planned_modules
    ELSE ALL_DEFINED_MODULES_LIST

\* the finished state: every planned module has an output entry and the
\* consolidation was invoked
RunFinished ==
    /\ Range(PlannedRoute) \subseteq DOMAIN analytical_module_outputs
    /\ \E i \in DOMAIN trace : trace[i].ev = "consolidate"

\* a script run of the main loop has something to do: it plans the
\* information needs or executes the next module
MainLoopCanAct == FirstRunPlanningDue \/ CanRunNextModule

\* C27: every started run, with AI planning enabled or disabled and whatever
\* the LLM answers, reaches the finished state in which every planned module
\* has an output entry and the consolidation has been invoked, and never
\* stays in progress with no module being executed.  Every module execution
\* gives an output to a module that had none, so the main loop acts only
\* finitely often in a run; the run terminates as claimed if and only if
\* every state of a started run in which the main loop has nothing to do is
\* the finished state.
C27_RunTermination == analysis_started /\ ~MainLoopCanAct => RunFinished

\* the same for the runs with AI planning disabled
C27_WithoutPlanner ==
    analysis_started /\ ~ai_planner_enabled /\ ~MainLoopCanAct => RunFinished

\* the same for the runs whose last prompt assembly did not raise
C27_LastPromptAssembled ==
    /\ analysis_started /\ ~ai_planner_enabled /\ ~MainLoopCanAct
    /\ "prompt" \notin last_exec.raised
    => RunFinished



\* a step in which a module was executed, and the events it added
ModuleExecuted == analysis_started /\ Len(trace') > Len(trace)

Added(ev) == \E i \in (Len(trace) + 1)..Len(trace') : trace'[i].ev = ev

\* an entry of the module-output map but for its cached summary
ButSummary(entry) == [entry EXCEPT !.abbreviated_summary = PyNone]

\* C28: frame conditions of a module's execution.  It leaves every
\* document's chunks and the information-needs plan as they were.  The
\* overall conclusion and the contradiction log change only when the
\* integration is invoked, key_risks and key_opportunities only when the
\* consolidation is invoked: an execution that integrates without
\* consolidating leaves key_risks and key_opportunities, one that
\* consolidates without integrating leaves the conclusion and the log.  In
\* the module-output map only the entry of the executed module is written,
\* and of the other entries only the cached abbreviated summary.
C28_FrameConditions ==
    [][ ModuleExecuted =>
          LET m == trace'[Len(trace) + 1].module IN
          /\ financial_reports' = financial_reports
          /\ information_needs_by_module' = information_needs_by_module
          /\ ~Added("integrate") =>
                /\ current_overall_financial_conclusion'
                       = current_overall_financial_conclusion
                /\ contradiction_logbook' = contradiction_logbook
          /\ ~Added("consolidate") =>
                /\ key_risks' = key_risks
                /\ key_opportunities' = key_opportunities
          /\ DOMAIN analytical_module_outputs' \subseteq
                 DOMAIN analytical_module_outputs \cup {m}
          /\ \A d \in DOMAIN analytical_module_outputs :
                /\ d \in DOMAIN analytical_module_outputs'
                /\ d # m => ButSummary(analytical_module_outputs'[d])
                                = ButSummary(analytical_module_outputs[d])
      ]_vars

\* the last module of a run was integrated and the run consolidated: the
\* conclusion was replaced, a contradiction logged, both lists filled, a
\* summary of an earlier module cached, and the plan and the chunks are
\* those of the start
C28_Witness ==
    /\ analysis_started
    /\ last_integration.module = ALL_DEFINED_MODULES_LIST[TOTAL_MODULES_COUNT]
    /\ last_integration.wrote
    /\ contradiction_logbook # <<>>
    /\ key_risks # <<>>
    /\ key_opportunities # <<>>
    /\ \E d \in DOMAIN analytical_module_outputs :
          Truthy(analytical_module_outputs[d].abbreviated_summary)
    /\ financial_reports = UploadedReports
    /\ \E d \in DOMAIN information_needs_by_module :
          information_needs_by_module[d] # EmptyNeeds



----------------------------------------------------------------------------
(* Claims about the analysis block (SpecCalls) *)

AnalysisReturned == call_fn = "run_llm_module_analysis: analysis" /\ call_pc = "returned"

\* the LLM returned content that is not empty
ReturnedContent(resp) == resp.kind \notin {"raise", "empty"}

\* C29: a module's output has status Completed only if the LLM was available
\* and returned non-empty content for the module's analysis call; when the
\* LLM is unavailable or returns no content the module is recorded with
\* another status and the integration into the overall conclusion is not
\* attempted.
C29_StatusSoundness ==
    AnalysisReturned =>
        LET sound == llm /\ ReturnedContent(call_args.resp) IN
        /\ call_result.output.status = "Completed" => sound
        /\ ~sound =>
              /\ call_result.output.status # "Completed"
              /\ ~call_result.integration_invoked

\* the same for the calls made with an LLM
C29_WithLLM == llm => C29_StatusSoundness



----------------------------------------------------------------------------
(* Claims about the dependencies of the modules (SpecCalls) *)

PriorSummaryReturned == call_fn = "get_prior_analyses_summary" /\ call_pc = "returned"

\* the position of a module in the catalog, 0 for a name that is not in it
PositionOf(m) ==
    IF m \in Range(CatalogOrder)
    THEN CHOOSE i \in DOMAIN CatalogOrder : CatalogOrder[i] = m
    ELSE 0

\* the modules all of whose prerequisites are in done
Ready(done) ==
    {m \in Range(CatalogOrder) : Range(MODULE_DEPENDENCIES(m)) \subseteq done}

\* the modules that can be ordered after their prerequisites
RECURSIVE Orderable(_)
Orderable(done) ==
    IF Ready(done) \subseteq done THEN done ELSE Orderable(done \cup Ready(done))

\* C30: in the order of the catalog every prerequisite MODULE_DEPENDENCIES
\* lists for a module is a defined module that precedes it, so that with AI
\* planning disabled every dependency of a module has an output when the
\* module's prior-analyses summary is assembled.
C30_DependencyOrder ==
    PriorSummaryReturned =>
        LET m == call_args.current_module_name IN
        /\ \A d \in Range(MODULE_DEPENDENCIES(m)) :
              /\ PositionOf(d) > 0
              /\ PositionOf(d) < PositionOf(m)
        /\ call_result.found = MODULE_DEPENDENCIES(m)

\* the same for the modules other than 3.3 and 5.3
C30_OtherModules ==
    PriorSummaryReturned /\ call_args.current_module_name \notin {"3.3", "5.3"}
        => C30_DependencyOrder

\* the dependency relation has no cycle and names defined modules only
C30_Acyclic ==
    /\ Orderable({}) = Range(CatalogOrder)
    /\ \A m \in Range(CatalogOrder) :
          Range(MODULE_DEPENDENCIES(m)) \subseteq Range(CatalogOrder)

=============================================================================
